---- MODULE Spec2Model ----
(***************************************************************************)
(* Change & Scope Engine of bug-bounty-automation:                         *)
(*   ScopeValidator      src/src/scope/validator.py                        *)
(*   ScopeComparator     src/src/scope/comparator.py, src/src/scope/base.py*)
(*   DiffEngine          src/src/core/diff_engine.py,                      *)
(*                       src/src/db/repositories.py, src/src/db/models.py  *)
(*   reconnaissance      src/src/workflows/reconnaissance.py               *)
(*                                                                         *)
(* Python strings are sequences of one-character strings, so that lower(), *)
(* strip(), "in", endswith(), the wildcard regular expressions and the     *)
(* ipaddress parsers are computed character by character.                  *)
(***************************************************************************)
EXTENDS Integers, Sequences, FiniteSets, TLC

VARIABLES
    scope_data,     \* the ScopeData a ScopeValidator was built from
    v_asset,        \* the asset string handed to validate
    v_result,       \* the ValidationResult returned, or None
    previous,       \* ScopeComparator.compare: previous snapshot
    current,        \* ScopeComparator.compare: current snapshot
    comparison,     \* outcome of compare: a ScopeComparison, a raised error, or None
    now,            \* wall clock (datetime.utcnow / database now())
    assets,         \* the session's Asset objects, by (program_id, value)
    flushed,        \* the assets table as last written by a flush
    asset_changes,  \* the asset_changes table (append order)
    session,        \* "closed" or "open": update_assets_task's session
    txn_start,      \* start time of the session's transaction, or None
    last_call,      \* what the latest compare_and_update was given and returned
    calls,          \* number of compare_and_update calls made
    sd_asset,       \* should_scan: the asset examined
    sd_force,       \* should_scan: the force argument
    sd_clock,       \* should_scan: the successive datetime.utcnow() readings
    sd_result,      \* should_scan: the (should_scan, reason) returned, or None
    program,        \* reconnaissance: the Program row (in_scope, out_of_scope)
    rpc,            \* reconnaissance: position in the flow
    flow,           \* reconnaissance: which flow is running
    subdomains,     \* reconnaissance: hosts found by enumerate_subdomains_task
    dns_results,    \* reconnaissance: resolve_dns_task's result, host -> IPs
    port_scanned,   \* reconnaissance: hosts handed to Naabu so far
    http_probed,    \* reconnaissance: hosts handed to httpx so far
    probe_results,  \* reconnaissance: httpx results update_assets_task has yet to store
    cycles,         \* reconnaissance: number of flows started
    db,             \* concurrent sessions: the committed tables, the id sequence, the clock
    txns,           \* concurrent sessions: each worker's session and its transaction
    trace,          \* concurrent sessions: the calls made so far
    revisit,        \* periodic cycles: position in the cycle, latest should_scan decision
    scope_history,  \* scope monitoring: the ScopeHistory rows of the program, oldest first
    monitor_result, \* scope monitoring: outcome of the latest monitor_program_scope_flow
    race            \* racing inserts: the assets table, and each worker's transaction

valVars   == <<scope_data, v_asset, v_result>>
cmpVars   == <<previous, current, comparison>>
dbVars    == <<now, assets, flushed, asset_changes, session, txn_start, last_call, calls>>
scanVars  == <<sd_asset, sd_force, sd_clock, sd_result>>
reconVars == <<program, rpc, flow, subdomains, dns_results, port_scanned, http_probed,
               probe_results, cycles>>
concVars  == <<db, txns, trace>>
revisitVars == <<revisit>>
monitorVars == <<scope_history, monitor_result>>
raceVars  == <<race>>
vars      == <<valVars, cmpVars, dbVars, scanVars, reconVars, concVars, revisitVars, monitorVars, raceVars>>

\* Python's None, in the three shapes a value that may be None takes here:
\* an object (record), a str (sequence of characters) and an int (no status,
\* length or time is negative)
NoneRec == [none |-> TRUE]
NoneStr == <<"None">>
NoneInt == -1

(***************************************************************************)
(* Characters and strings                                                  *)
(***************************************************************************)

\* set(list)
ToSet(l) == {l[i] : i \in 1..Len(l)}

\* printable ASCII in code-point order, 32 .. 126 (the double quote, the
\* backslash and the backquote are written DQUOTE, BSLASH and BQUOTE)
AsciiChars ==
    <<" ", "!", "DQUOTE", "#", "$", "%", "&", "'", "(", ")", "*", "+", ",", "-", ".", "/",
      "0", "1", "2", "3", "4", "5", "6", "7", "8", "9", ":", ";", "<", "=", ">", "?",
      "@", "A", "B", "C", "D", "E", "F", "G", "H", "I", "J", "K", "L", "M", "N", "O",
      "P", "Q", "R", "S", "T", "U", "V", "W", "X", "Y", "Z", "[", "BSLASH", "]", "^", "_",
      "BQUOTE", "a", "b", "c", "d", "e", "f", "g", "h", "i", "j", "k", "l", "m", "n", "o",
      "p", "q", "r", "s", "t", "u", "v", "w", "x", "y", "z", "{", "|", "}", "~">>

\* ord, as a table over the characters in use
OrdTable ==
    [c \in ToSet(AsciiChars) \cup {"\t", "\n", "\r"} |->
        IF c = "\t" THEN 9
        ELSE IF c = "\n" THEN 10
        ELSE IF c = "\r" THEN 13
        ELSE 31 + (CHOOSE i \in 1..Len(AsciiChars) : AsciiChars[i] = c)]

\* ord(c)
Ord(c) == OrdTable[c]

\* str.lower() on one character, as a table
LowerTable ==
    [c \in DOMAIN OrdTable |->
        IF OrdTable[c] >= 65 /\ OrdTable[c] <= 90
        THEN AsciiChars[OrdTable[c] + 32 - 31] ELSE c]

LowerChar(c) == LowerTable[c]

\* str.lower()
Lower(s) == [i \in 1..Len(s) |-> LowerChar(s[i])]

Whitespace == {" ", "\t", "\n", "\r"}

RECURSIVE LStrip(_)
LStrip(s) ==
    IF s # <<>> /\ Head(s) \in Whitespace THEN LStrip(Tail(s)) ELSE s

RECURSIVE RStrip(_)
RStrip(s) ==
    IF s # <<>> /\ s[Len(s)] \in Whitespace THEN RStrip(SubSeq(s, 1, Len(s) - 1)) ELSE s

\* str.strip()
Strip(s) == RStrip(LStrip(s))

\* c in s
Contains(s, c) == \E i \in 1..Len(s) : s[i] = c

\* s.endswith(t)
EndsWith(s, t) ==
    /\ Len(t) <= Len(s)
    /\ SubSeq(s, Len(s) - Len(t) + 1, Len(s)) = t

\* s.split(c)
RECURSIVE Split(_, _)
Split(s, c) ==
    IF ~Contains(s, c) THEN <<s>>
    ELSE LET i == CHOOSE j \in 1..Len(s) : s[j] = c /\ \A k \in 1..(j - 1) : s[k] # c
         IN  <<SubSeq(s, 1, i - 1)>> \o Split(SubSeq(s, i + 1, Len(s)), c)

\* lexicographic order of str by code point, as sorted() compares
RECURSIVE StrLess(_, _)
StrLess(s, t) ==
    IF t = <<>> THEN FALSE
    ELSE IF s = <<>> THEN TRUE
    ELSE IF Ord(Head(s)) # Ord(Head(t)) THEN Ord(Head(s)) < Ord(Head(t))
    ELSE StrLess(Tail(s), Tail(t))

\* sorted(list of str)
RECURSIVE Sorted(_)
Sorted(l) ==
    IF l = <<>> THEN <<>>
    ELSE LET i == CHOOSE j \in 1..Len(l) :
                      /\ \A k \in 1..Len(l) : ~StrLess(l[k], l[j])
                      /\ \A k \in 1..(j - 1) : l[k] # l[j]
             rest == [k \in 1..(Len(l) - 1) |-> IF k < i THEN l[k] ELSE l[k + 1]]
         IN  <<l[i]>> \o Sorted(rest)

\* the sequences over S of length at most n
SeqUpTo(S, n) == UNION {[1..m -> S] : m \in 0..n}

(***************************************************************************)
(* ipaddress: ip_address, ip_network(strict=False), "ip in network".       *)
(* An address is [version, groups]: four 8-bit groups for IPv4, eight      *)
(* 16-bit groups for IPv6.  The IPv6 text form covered is hexadecimal      *)
(* groups with at most one "::" (no embedded IPv4 tail, no zone id); the   *)
(* network form covered is address "/" prefix length.                      *)
(***************************************************************************)

\* the ValueError the parsers raise
Invalid == [version |-> 0]

DecDigits == <<"0", "1", "2", "3", "4", "5", "6", "7", "8", "9">>
HexDigits == <<"0", "1", "2", "3", "4", "5", "6", "7", "8", "9", "a", "b", "c", "d", "e", "f">>

IsDigit(c) == \E i \in 1..Len(DecDigits) : DecDigits[i] = c
IsHexDigit(c) == \E i \in 1..Len(HexDigits) : HexDigits[i] = LowerChar(c)
DigitVal(c) == (CHOOSE i \in 1..Len(HexDigits) : HexDigits[i] = LowerChar(c)) - 1

AllDigits(s) == s # <<>> /\ \A i \in 1..Len(s) : IsDigit(s[i])
AllHex(s) == s # <<>> /\ \A i \in 1..Len(s) : IsHexDigit(s[i])

\* int(s, base) for a digit string
RECURSIVE ParseInt(_, _)
ParseInt(s, base) ==
    IF s = <<>> THEN 0
    ELSE ParseInt(SubSeq(s, 1, Len(s) - 1), base) * base + DigitVal(s[Len(s)])

\* IPv4Address._parse_octet: 1 to 3 decimal digits, no leading zero, at most 255
ValidOctet(s) ==
    /\ AllDigits(s)
    /\ Len(s) <= 3
    /\ (Len(s) > 1 => s[1] # "0")
    /\ ParseInt(s, 10) <= 255

ParseIPv4(s) ==
    LET parts == Split(s, ".")
    IN  IF Len(parts) = 4 /\ \A i \in 1..4 : ValidOctet(parts[i])
        THEN [version |-> 4, groups |-> [i \in 1..4 |-> ParseInt(parts[i], 10)]]
        ELSE Invalid

\* IPv6Address._parse_hextet: 1 to 4 hexadecimal digits
ValidHextet(s) == AllHex(s) /\ Len(s) <= 4

\* position of the first "::" in s, or 0
DoubleColon(s) ==
    IF \E i \in 1..(Len(s) - 1) : s[i] = ":" /\ s[i + 1] = ":"
    THEN CHOOSE i \in 1..(Len(s) - 1) :
            /\ s[i] = ":" /\ s[i + 1] = ":"
            /\ \A j \in 1..(i - 1) : ~(s[j] = ":" /\ s[j + 1] = ":")
    ELSE 0

ParseIPv6(s) ==
    LET dc == DoubleColon(s)
        Hextets(t) == IF t = <<>> THEN <<>> ELSE Split(t, ":")
    IN  IF dc = 0
        THEN LET parts == Split(s, ":")
             IN  IF Len(parts) = 8 /\ \A i \in 1..8 : ValidHextet(parts[i])
                 THEN [version |-> 6, groups |-> [i \in 1..8 |-> ParseInt(parts[i], 16)]]
                 ELSE Invalid
        ELSE LET left  == Hextets(SubSeq(s, 1, dc - 1))
                 right == Hextets(SubSeq(s, dc + 2, Len(s)))
             IN  IF /\ Len(left) + Len(right) <= 7
                    /\ \A i \in 1..Len(left) : ValidHextet(left[i])
                    /\ \A i \in 1..Len(right) : ValidHextet(right[i])
                 THEN [version |-> 6,
                       groups  |-> [i \in 1..8 |->
                                      IF i <= Len(left) THEN ParseInt(left[i], 16)
                                      ELSE IF i > 8 - Len(right)
                                           THEN ParseInt(right[i - (8 - Len(right))], 16)
                                           ELSE 0]]
                 ELSE Invalid

\* ipaddress.ip_address(s): IPv4 first, then IPv6
IpAddress(s) ==
    IF ParseIPv4(s) # Invalid THEN ParseIPv4(s) ELSE ParseIPv6(s)

GroupBits(version) == IF version = 4 THEN 8 ELSE 16
MaxPrefix(version) == IF version = 4 THEN 32 ELSE 128

RECURSIVE Pow2(_)
Pow2(n) == IF n = 0 THEN 1 ELSE 2 * Pow2(n - 1)

\* ipaddress.ip_network(s, strict=False): [version, groups, prefix] or Invalid
IpNetwork(s) ==
    LET parts == Split(s, "/")
        addr  == IpAddress(parts[1])
    IN  IF Len(parts) = 1
        THEN IF addr = Invalid THEN Invalid
             ELSE [version |-> addr.version, groups |-> addr.groups,
                   prefix |-> MaxPrefix(addr.version)]
        ELSE IF Len(parts) = 2 /\ addr # Invalid /\ AllDigits(parts[2])
                /\ Len(parts[2]) <= 4
                /\ ParseInt(parts[2], 10) <= MaxPrefix(addr.version)
        THEN [version |-> addr.version, groups |-> addr.groups,
              prefix |-> ParseInt(parts[2], 10)]
        ELSE Invalid

\* ip in network: same version and equal on the first prefix bits
InNetwork(ip, net) ==
    /\ ip.version = net.version
    /\ LET w    == GroupBits(ip.version)
           full == net.prefix \div w
           r    == net.prefix % w
       IN  /\ \A i \in 1..full : ip.groups[i] = net.groups[i]
           /\ r > 0 => (ip.groups[full + 1] \div Pow2(w - r))
                          = (net.groups[full + 1] \div Pow2(w - r))

(***************************************************************************)
(* ScopeData and ScopeValidator (scope/base.py, scope/validator.py)        *)
(***************************************************************************)

\* ScopeData: the two lists; the presentation metadata takes no part
ScopeData(in_scope, out_of_scope) ==
    [in_scope |-> in_scope, out_of_scope |-> out_of_scope]

\* an invalid network kept as an exact entry
RuleKindKeepInvalid(rule) ==
    IF Contains(rule, "*") THEN "pattern"
    ELSE IF Contains(rule, "/") /\ IpNetwork(rule) # Invalid THEN "cidr"
    ELSE "exact"
\* the branch of _categorize_rule a rule takes
RuleKind(rule) ==
    IF Contains(rule, "*") THEN "pattern"
    ELSE IF Contains(rule, "/")
         THEN IF IpNetwork(rule) # Invalid THEN "cidr" ELSE "dropped"
         ELSE "exact"

\* l.append for the rules of one kind, in list order
RECURSIVE RulesOfKind(_, _)
RulesOfKind(list, kind) ==
    IF list = <<>> THEN <<>>
    ELSE IF RuleKind(Head(list)) = kind
         THEN <<Head(list)>> \o RulesOfKind(Tail(list), kind)
         ELSE RulesOfKind(Tail(list), kind)

\* the pattern list with "*." + rule added for every exact rule
PatternsAndChildren(list) ==
    RulesOfKind(list, "pattern")
    \o [i \in 1..Len(RulesOfKind(list, "exact")) |->
           <<"*", ".">> \o RulesOfKind(list, "exact")[i]]
\* _prepare_patterns: the pattern and CIDR lists and the exact sets
Patterns(list) == RulesOfKind(list, "pattern")
Cidrs(list)    == RulesOfKind(list, "cidr")
\* the exact set without rule.lower()
ExactRaw(list) == ToSet(RulesOfKind(list, "exact"))
Exact(list)    == {Lower(r) : r \in ToSet(RulesOfKind(list, "exact"))}

\* re.compile("^" + re.escape(rule).replace("\*", ".*") + "$", re.IGNORECASE).match(s):
\* "*" is ".*" (any run of characters other than newline), every other
\* character of the rule is a literal compared without case, "$" is the end
\* of s or the position before a final newline
RECURSIVE PatternMatch(_, _)
PatternMatch(rule, s) ==
    IF rule = <<>> THEN s = <<>> \/ s = <<"\n">>
    ELSE IF Head(rule) = "*"
         THEN \E n \in 0..Len(s) :
                 /\ \A i \in 1..n : s[i] # "\n"
                 /\ PatternMatch(Tail(rule), SubSeq(s, n + 1, Len(s)))
         ELSE /\ s # <<>>
              /\ LowerChar(Head(rule)) = LowerChar(Head(s))
              /\ PatternMatch(Tail(rule), Tail(s))

\* _is_ip: ^\d{1,3}\.\d{1,3}\.\d{1,3}\.\d{1,3}$
IsIp(value) ==
    LET parts == Split(value, ".")
    IN  /\ Len(parts) = 4
        /\ \A i \in 1..4 : AllDigits(parts[i]) /\ Len(parts[i]) <= 3

\* the suffix test without the separating dot
IsSuffixOf(subdomain, domain) ==
    IF subdomain = domain THEN FALSE
    ELSE EndsWith(subdomain, domain)
\* _is_subdomain_of
IsSubdomainOf(subdomain, domain) ==
    IF subdomain = domain THEN FALSE
    ELSE EndsWith(subdomain, <<".">> \o domain)

\* a for loop that returns at the first hit: the index of the first TRUE of
\* a sequence of tests, or 0
FirstIndex(hits) ==
    IF \E i \in 1..Len(hits) : hits[i]
    THEN CHOOSE i \in 1..Len(hits) : hits[i] /\ \A j \in 1..(i - 1) : ~hits[j]
    ELSE 0

ValidationResult(asset, in_scope, reason, matched_rule) ==
    [asset |-> asset, in_scope |-> in_scope, reason |-> reason,
     matched_rule |-> matched_rule]

\* the CIDR loops of validate: guarded by _is_ip, ValueError swallowed
CidrHit(asset_lower, cidrs) ==
    IF IsIp(asset_lower) /\ IpAddress(asset_lower) # Invalid
    THEN FirstIndex([i \in 1..Len(cidrs) |->
                        InNetwork(IpAddress(asset_lower), IpNetwork(cidrs[i]))])
    ELSE 0

\* ScopeValidator.validate: the set of results it can return.  The results
\* differ only when the subdomain loop, which iterates over a set, has
\* several in-scope parents to pick matched_rule from.
validate(sd, asset) ==
    LET asset_lower        == Strip(Lower(asset))
        out_scope_exact    == Exact(sd.out_of_scope)
        out_scope_patterns == Patterns(sd.out_of_scope)
        out_scope_cidrs    == Cidrs(sd.out_of_scope)
        in_scope_exact     == Exact(sd.in_scope)
        in_scope_patterns  == Patterns(sd.in_scope)
        in_scope_cidrs     == Cidrs(sd.in_scope)
        outPat  == FirstIndex([i \in 1..Len(out_scope_patterns) |->
                                 PatternMatch(out_scope_patterns[i], asset_lower)])
        outCidr == CidrHit(asset_lower, out_scope_cidrs)
        inPat   == FirstIndex([i \in 1..Len(in_scope_patterns) |->
                                 PatternMatch(in_scope_patterns[i], asset_lower)])
        inCidr  == CidrHit(asset_lower, in_scope_cidrs)
        parents == {d \in in_scope_exact : IsSubdomainOf(asset_lower, d)}
    IN  IF asset_lower \in out_scope_exact
        THEN {ValidationResult(asset, FALSE, "Explicitly out of scope", asset_lower)}
        ELSE IF outPat # 0
        THEN {ValidationResult(asset, FALSE, "Matches out-of-scope pattern",
                               out_scope_patterns[outPat])}
        ELSE IF outCidr # 0
        THEN {ValidationResult(asset, FALSE, "In out-of-scope CIDR range",
                               out_scope_cidrs[outCidr])}
        ELSE IF asset_lower \in in_scope_exact
        THEN {ValidationResult(asset, TRUE, "Explicitly in scope", asset_lower)}
        ELSE IF inPat # 0
        THEN {ValidationResult(asset, TRUE, "Matches in-scope pattern",
                               in_scope_patterns[inPat])}
        ELSE IF inCidr # 0
        THEN {ValidationResult(asset, TRUE, "In in-scope CIDR range",
                               in_scope_cidrs[inCidr])}
        ELSE IF parents # {}
        THEN {ValidationResult(asset, TRUE, "Subdomain of in-scope domain", d) : d \in parents}
        ELSE {ValidationResult(asset, FALSE, "Not found in program scope", NoneStr)}

(***************************************************************************)
(* Scope rules and asset strings the specifications draw from              *)
(***************************************************************************)

Str_a_c        == <<"a", ".", "c">>                                \* a.c
Str_A_c        == <<"A", ".", "c">>                                \* A.c
Str_b_c        == <<"b", ".", "c">>                                \* b.c
Str_t_a_c      == <<"t", ".", "a", ".", "c">>                      \* t.a.c
Str_u_t_a_c    == <<"u", ".", "t", ".", "a", ".", "c">>            \* u.t.a.c
Str_T_A_C_sp   == <<"T", ".", "A", ".", "C", " ">>                 \* "T.A.C "
Str_xa_c       == <<"x", "a", ".", "c">>                           \* xa.c
Str_http_a_c   == <<"h", "t", "t", "p", ":", "/", "/", "a", ".", "c", "/">>   \* http://a.c/
Str_star_a_c   == <<"*", ".", "a", ".", "c">>                      \* *.a.c
Str_ip4        == <<"1", ".", "1", ".", "1", ".", "1">>            \* 1.1.1.1
Str_ip4_other  == <<"1", ".", "1", ".", "2", ".", "1">>            \* 1.1.2.1
Str_ip4_bad    == <<"9", "9", "9", ".", "1", ".", "1", ".", "1">>  \* 999.1.1.1
Str_cidr4      == <<"1", ".", "1", ".", "1", ".", "0", "/", "2", "4">>   \* 1.1.1.0/24
Str_ip6        == <<":", ":", "1">>                                \* ::1
Str_cidr6      == <<":", ":", "/", "1", "2", "7">>                 \* ::/127
Str_cidr_bad   == <<"x", "/", "y">>                                \* x/y

RuleUniverse ==
    {Str_A_c, Str_t_a_c, Str_star_a_c, Str_cidr4, Str_ip6, Str_cidr6, Str_cidr_bad}

AssetUniverse ==
    {Str_a_c, Str_b_c, Str_t_a_c, Str_u_t_a_c, Str_T_A_C_sp, Str_xa_c, Str_http_a_c,
     Str_ip4, Str_ip4_other, Str_ip4_bad, Str_ip6, Str_cidr_bad}

MaxInScope  == 2
MaxOutScope == 1

ScopeDatas ==
    {ScopeData(i, o) : i \in SeqUpTo(RuleUniverse, MaxInScope),
                       o \in SeqUpTo(RuleUniverse, MaxOutScope)}

(***************************************************************************)
(* Idle values of the variables a specification does not use               *)
(***************************************************************************)

ValIdle == scope_data = NoneRec /\ v_asset = NoneStr /\ v_result = NoneRec

CmpIdle == previous = NoneRec /\ current = NoneRec /\ comparison = NoneRec

DbIdle ==
    /\ now = 0 /\ assets = <<>> /\ flushed = <<>> /\ asset_changes = <<>>
    /\ session = "closed" /\ txn_start = NoneInt /\ last_call = NoneRec /\ calls = 0

ScanIdle == sd_asset = NoneRec /\ sd_force = FALSE /\ sd_clock = <<>> /\ sd_result = NoneRec

ReconIdle ==
    /\ program = NoneRec /\ rpc = "idle" /\ flow = "none" /\ subdomains = {}
    /\ dns_results = <<>> /\ port_scanned = {} /\ http_probed = {} /\ probe_results = {}
    /\ cycles = 0

ConcIdle == db = NoneRec /\ txns = <<>> /\ trace = NoneRec

RevisitIdle == revisit = NoneRec

MonitorIdle == scope_history = <<>> /\ monitor_result = NoneRec

RaceIdle == race = NoneRec

(***************************************************************************)
(* SpecValidator: a ScopeValidator is built from a ScopeData and asked     *)
(* about one asset string                                                  *)
(***************************************************************************)

InitValidator ==
    /\ scope_data \in ScopeDatas
    /\ v_asset \in AssetUniverse
    /\ v_result = NoneRec
    /\ CmpIdle /\ DbIdle /\ ScanIdle /\ ReconIdle /\ ConcIdle /\ RevisitIdle /\ MonitorIdle /\ RaceIdle

\* ScopeValidator(scope_data).validate(v_asset)
Validate ==
    /\ v_result = NoneRec
    /\ v_result' \in validate(scope_data, v_asset)
    /\ UNCHANGED <<scope_data, v_asset, cmpVars, dbVars, scanVars, reconVars, concVars, revisitVars, monitorVars, raceVars>>

NextValidator == Validate

SpecValidator == InitValidator /\ [][NextValidator]_vars

(***************************************************************************)
(* ScopeComparator (scope/comparator.py, scope/base.py)                    *)
(***************************************************************************)

\* ScopeData.calculate_checksum: SHA256 over the JSON text of the two sorted
\* lists; the digest is written as the text it is computed from
calculate_checksum(sd) ==
    [in_scope |-> Sorted(sd.in_scope), out_of_scope |-> Sorted(sd.out_of_scope)]

\* the attributes a ScopeData object has: its dataclass fields and methods
ScopeDataAttrs ==
    {"in_scope", "out_of_scope", "platform", "program_handle", "program_name",
     "bounty_table", "program_description", "program_url", "last_updated",
     "raw_data", "calculate_checksum", "__str__"}

\* outcome of a call: a returned value or a raised exception
Returns(value) == [exception |-> "none", value |-> value]
Raises(exception) == [exception |-> exception]
Returned(outcome) == outcome.exception = "none"

ADDED    == "added"
REMOVED  == "removed"
MODIFIED == "modified"

ScopeChange(change_type, item, category, details) ==
    [change_type |-> change_type, item |-> item, category |-> category,
     details |-> details]

\* the orders in which a for loop can visit a set
Orders(S) ==
    {o \in [1..Cardinality(S) -> S] : \A i, j \in 1..Cardinality(S) : o[i] = o[j] => i = j}

\* concatenation of the per-item results of one loop
RECURSIVE Flatten(_)
Flatten(ss) == IF ss = <<>> THEN <<>> ELSE Head(ss) \o Flatten(Tail(ss))

\* the changes of a list that have one change_type, in list order
RECURSIVE OfType(_, _)
OfType(changes, t) ==
    IF changes = <<>> THEN <<>>
    ELSE IF Head(changes).change_type = t
         THEN <<Head(changes)>> \o OfType(Tail(changes), t)
         ELSE OfType(Tail(changes), t)

\* compare after the checksum test: the four loops, visiting the four
\* difference sets in the orders o1 .. o4
CompareLoops(prev_in, curr_in, prev_out, curr_out, o1, o2, o3, o4) ==
    LET loop1 == [i \in 1..Len(o1) |->
                    IF o1[i] \in prev_out
                    THEN <<ScopeChange(MODIFIED, o1[i], "in_scope",
                                       [from |-> "out_of_scope", to |-> "in_scope"])>>
                    ELSE <<ScopeChange(ADDED, o1[i], "in_scope", NoneRec)>>]
        loop2 == [i \in 1..Len(o2) |->
                    IF o2[i] \in curr_out
                    THEN IF o2[i] \notin prev_out
                         THEN <<ScopeChange(MODIFIED, o2[i], "out_of_scope",
                                            [from |-> "in_scope", to |-> "out_of_scope"])>>
                         ELSE <<>>
                    ELSE <<ScopeChange(REMOVED, o2[i], "in_scope", NoneRec)>>]
        loop3 == [i \in 1..Len(o3) |->
                    IF o3[i] \notin prev_in
                    THEN <<ScopeChange(ADDED, o3[i], "out_of_scope", NoneRec)>>
                    ELSE <<>>]
        loop4 == [i \in 1..Len(o4) |->
                    IF o4[i] \notin curr_in
                    THEN <<ScopeChange(REMOVED, o4[i], "out_of_scope", NoneRec)>>
                    ELSE <<>>]
        changes == Flatten(loop1) \o Flatten(loop2) \o Flatten(loop3) \o Flatten(loop4)
    IN  [changes             |-> changes,
         additions           |-> OfType(changes, ADDED),
         removals            |-> OfType(changes, REMOVED),
         modifications       |-> OfType(changes, MODIFIED),
         unchanged_in_scope  |-> prev_in \cap curr_in,
         unchanged_out_scope |-> prev_out \cap curr_out,
         has_changes         |-> Len(changes) > 0]

\* the results of the four loops, over the orders set iteration can take
CompareBody(prev, curr) ==
    LET prev_in  == ToSet(prev.in_scope)
        curr_in  == ToSet(curr.in_scope)
        prev_out == ToSet(prev.out_of_scope)
        curr_out == ToSet(curr.out_of_scope)
    IN  {CompareLoops(prev_in, curr_in, prev_out, curr_out, o1, o2, o3, o4) :
            o1 \in Orders(curr_in \ prev_in), o2 \in Orders(prev_in \ curr_in),
            o3 \in Orders(curr_out \ prev_out), o4 \in Orders(prev_out \ curr_out)}

\* the early return of compare when the checksums match
ShortCircuit(curr) ==
    [changes             |-> <<>>,
     additions           |-> <<>>,
     removals            |-> <<>>,
     modifications       |-> <<>>,
     unchanged_in_scope  |-> ToSet(curr.in_scope),
     unchanged_out_scope |-> ToSet(curr.out_of_scope),
     has_changes         |-> FALSE]

\* ScopeComparator.compare: the outcomes it can have.  Its first statement
\* evaluates previous.checksum(); ScopeData has calculate_checksum and no
\* attribute named checksum, so the attribute lookup raises AttributeError
\* before anything is compared.
compare(prev, curr) ==
    IF "checksum" \notin ScopeDataAttrs
    THEN {Raises("AttributeError")}
    ELSE IF calculate_checksum(prev) = calculate_checksum(curr)
         THEN {Returns(ShortCircuit(curr))}
         ELSE {Returns(c) : c \in CompareBody(prev, curr)}

\* the rule strings the snapshots are made of
ItemUniverse == {Str_A_c, Str_t_a_c}

MaxScopeLen == 2

Snapshots ==
    {ScopeData(i, o) : i \in SeqUpTo(ItemUniverse, MaxScopeLen),
                       o \in SeqUpTo(ItemUniverse, MaxScopeLen)}

(***************************************************************************)
(* SpecComparator: two snapshots are compared                              *)
(***************************************************************************)

InitComparator ==
    /\ previous \in Snapshots
    /\ current \in Snapshots
    /\ comparison = NoneRec
    /\ ValIdle /\ DbIdle /\ ScanIdle /\ ReconIdle /\ ConcIdle /\ RevisitIdle /\ MonitorIdle /\ RaceIdle

\* ScopeComparator().compare(previous, current)
Compare ==
    /\ comparison = NoneRec
    /\ comparison' \in compare(previous, current)
    /\ UNCHANGED <<previous, current, valVars, dbVars, scanVars, reconVars, concVars, revisitVars, monitorVars, raceVars>>

NextComparator == Compare

SpecComparator == InitComparator /\ [][NextComparator]_vars

(***************************************************************************)
(* Assets and the DiffEngine (db/models.py, db/repositories.py,            *)
(* db/session.py, core/diff_engine.py).  One session is open at a time;    *)
(* datetime.utcnow() and the database's now() read the same clock, and     *)
(* now() is the start time of the transaction.                             *)
(***************************************************************************)

\* None where a list is expected
NoneList == <<NoneStr>>

\* str(n) for n >= 0
RECURSIVE IntStr(_)
IntStr(n) ==
    IF n < 10 THEN <<DecDigits[n + 1]>> ELSE IntStr(n \div 10) \o <<DecDigits[(n % 10) + 1]>>

\* sorted(set of str)
RECURSIVE SortedSet(_)
SortedSet(S) ==
    IF S = {} THEN <<>>
    ELSE LET m == CHOOSE x \in S : \A y \in S : ~StrLess(y, x)
         IN  <<m>> \o SortedSet(S \ {m})

\* sep.join(list of str)
RECURSIVE Join(_, _)
Join(l, sep) ==
    IF l = <<>> THEN <<>>
    ELSE IF Len(l) = 1 THEN l[1]
    ELSE l[1] \o sep \o Join(Tail(l), sep)

\* the keys of the assets the calls are about: (program_id, value)
AssetKeys == {<<1, Str_a_c>>, <<1, Str_t_a_c>>}

\* Asset(program_id, asset_type, value) as the INSERT of the flush stores it
\* at transaction time t: the unset columns are NULL, is_alive takes its
\* default and the timestamps their server default now()
NewAsset(id, program_id, asset_type, value, t) ==
    [id             |-> id,
     program_id     |-> program_id,
     asset_type     |-> asset_type,
     value          |-> value,
     resolved_ips   |-> NoneList,
     http_status    |-> NoneInt,
     content_length |-> NoneInt,
     page_title     |-> NoneStr,
     technologies   |-> NoneList,
     response_hash  |-> NoneStr,
     is_alive       |-> TRUE,
     first_seen     |-> t,
     last_seen      |-> t,
     updated_at     |-> t]

\* an Asset without the response_hash column
AssetAttrsNoHash ==
    {"resolved_ips", "http_status", "content_length", "page_title", "technologies"}
\* the attribute names hasattr(asset, key) is true for, among the keys a
\* probe record can have
AssetAttrs ==
    {"resolved_ips", "http_status", "content_length", "page_title",
     "technologies", "response_hash"}

\* a loop that stores nothing
SetAttrsNone(asset, new_data) == asset
\* for key, val in new_data.items(): if hasattr(asset, key): setattr(asset, key, val)
SetAttrs(asset, new_data) ==
    [a \in DOMAIN asset |->
        IF a \in DOMAIN new_data /\ a \in AssetAttrs THEN new_data[a] ELSE asset[a]]

\* the UPDATE a flush emits for a loaded object: nothing when no column
\* differs from the row; otherwise the object's columns are written,
\* updated_at takes its onupdate now(), and last_seen takes its onupdate
\* now() unless the object carries a new last_seen itself
FlushAsset(obj, row, t) ==
    IF obj = row THEN row
    ELSE [obj EXCEPT !.updated_at = t,
                     !.last_seen = IF obj.last_seen # row.last_seen THEN obj.last_seen ELSE t]

\* session.flush(): every loaded object is written, and reads back its row
Flush(objs, rows, t) ==
    [k \in AssetKeys |->
        IF objs[k] = NoneRec THEN rows[k] ELSE FlushAsset(objs[k], rows[k], t)]

Refresh(objs, rows) ==
    [k \in AssetKeys |-> IF objs[k] = NoneRec THEN NoneRec ELSE rows[k]]

\* x or 0
OrZero(x) == IF x = NoneInt THEN 0 ELSE x

\* set(x or [])
OrEmptySet(x) == IF x = NoneList THEN {} ELSE ToSet(x)

\* str(x) if x else None
StrIfTruthy(x) == IF x = NoneInt \/ x = 0 THEN NoneStr ELSE IntStr(x)

\* "is not None" in place of the truth value
NotNone(x) == x # NoneStr
\* truth value of an optional str
Truthy(x) == x # NoneStr /\ x # <<>>

\* the comparison with >= in place of >
OverTenPercentOrEqual(old_length, new_length) ==
    LET diff == IF new_length >= old_length THEN new_length - old_length
                ELSE old_length - new_length
    IN  10 * diff >= old_length
\* abs(new_length - old_length) / old_length > 0.1, for old_length > 0.  For
\* lengths below 2^31 the rounded double quotient exceeds the double 0.1
\* exactly when the exact quotient exceeds one tenth.
OverTenPercent(old_length, new_length) ==
    LET diff == IF new_length >= old_length THEN new_length - old_length
                ELSE old_length - new_length
    IN  10 * diff > old_length

FieldChange(field_name, old_value, new_value) ==
    [field_name |-> field_name, old_value |-> old_value, new_value |-> new_value]

\* DiffEngine._detect_changes: the changes recorded, in order
DetectChanges(asset, new_data) ==
    LET status == IF "http_status" \in DOMAIN new_data
                     /\ asset.http_status # new_data.http_status
                  THEN <<FieldChange("http_status", StrIfTruthy(asset.http_status),
                                     StrIfTruthy(new_data.http_status))>>
                  ELSE <<>>
        length == IF "content_length" \in DOMAIN new_data
                     /\ OrZero(asset.content_length) > 0
                     /\ OverTenPercent(OrZero(asset.content_length),
                                       OrZero(new_data.content_length))
                  THEN <<FieldChange("content_length", IntStr(OrZero(asset.content_length)),
                                     IntStr(OrZero(new_data.content_length)))>>
                  ELSE <<>>
        tech   == IF "technologies" \in DOMAIN new_data
                     /\ OrEmptySet(asset.technologies) # OrEmptySet(new_data.technologies)
                  THEN <<FieldChange("technologies",
                                     Join(SortedSet(OrEmptySet(asset.technologies)), <<",">>),
                                     Join(SortedSet(OrEmptySet(new_data.technologies)), <<",">>))>>
                  ELSE <<>>
        title  == IF "page_title" \in DOMAIN new_data
                     /\ asset.page_title # new_data.page_title
                  THEN <<FieldChange("page_title", asset.page_title, new_data.page_title)>>
                  ELSE <<>>
        hash   == IF "response_hash" \in DOMAIN new_data
                     /\ Truthy(asset.response_hash) /\ Truthy(new_data.response_hash)
                     /\ asset.response_hash # new_data.response_hash
                  THEN <<FieldChange("response_hash", asset.response_hash,
                                     new_data.response_hash)>>
                  ELSE <<>>
        ips    == IF "resolved_ips" \in DOMAIN new_data
                     /\ OrEmptySet(asset.resolved_ips) # OrEmptySet(new_data.resolved_ips)
                  THEN <<FieldChange("resolved_ips",
                                     Join(SortedSet(OrEmptySet(asset.resolved_ips)), <<",">>),
                                     Join(SortedSet(OrEmptySet(new_data.resolved_ips)), <<",">>))>>
                  ELSE <<>>
    IN  status \o length \o tech \o title \o hash \o ips

\* only the first detected change is recorded
RecordChangesFirst(asset_id, detected, t) ==
    [i \in 1..(IF detected = <<>> THEN 0 ELSE 1) |->
        [asset_id    |-> asset_id,
         change_type |-> "modified",
         field_name  |-> detected[i].field_name,
         old_value   |-> detected[i].old_value,
         new_value   |-> detected[i].new_value,
         detected_at |-> t]]
\* AssetChangeRepository.record_change for each detected change; detected_at
\* takes its server default now()
RecordChanges(asset_id, detected, t) ==
    [i \in 1..Len(detected) |->
        [asset_id    |-> asset_id,
         change_type |-> "modified",
         field_name  |-> detected[i].field_name,
         old_value   |-> detected[i].old_value,
         new_value   |-> detected[i].new_value,
         detected_at |-> t]]

\* probe record values
Title_A   == <<"A">>
Hash_1    == <<"h", "1">>
Hash_2    == <<"h", "2">>
Tech_php  == <<"p", "h", "p">>
Tech_js   == <<"j", "s">>

\* the probe record every field of which is present
BaseRecord ==
    [http_status    |-> 200,
     content_length |-> 1000,
     page_title     |-> Title_A,
     technologies   |-> <<Tech_php>>,
     response_hash  |-> Hash_1,
     resolved_ips   |-> <<Str_ip4>>]

\* the probe records handed to compare_and_update: the base record, the base
\* record with one field replaced (among the replacements the empty hash
\* httpx reports for a response without one, a hash of None, and one
\* technology list in two orders, one of them with a repeated entry), and
\* records with fields absent
ProbeRecords ==
    {BaseRecord}
    \cup {[BaseRecord EXCEPT !.content_length = n] : n \in {NoneInt, 0, 500, 1100, 1101}}
    \cup {[BaseRecord EXCEPT !.response_hash = h] : h \in {Hash_2, <<>>, NoneStr}}
    \cup {[BaseRecord EXCEPT !.technologies = l] :
              l \in {<<>>, <<Tech_php, Tech_js>>, <<Tech_js, Tech_php, Tech_js>>}}
    \cup {[BaseRecord EXCEPT !.http_status = 403],
          [content_length |-> 500]}

\* the calls made: every probe record for one host, the base record for the other
CallUniverse ==
    {<<<<1, Str_a_c>>, d>> : d \in ProbeRecords} \cup {<<<<1, Str_t_a_c>>, BaseRecord>>}

MaxCalls == 3
MaxTime  == 2

(***************************************************************************)
(* SpecDiff: sessions are opened, compare_and_update is called in them,    *)
(* they are committed, and time passes                                     *)
(***************************************************************************)

\* empty tables, no session open
DbEmpty ==
    /\ now = 0
    /\ assets = [k \in AssetKeys |-> NoneRec]
    /\ flushed = [k \in AssetKeys |-> NoneRec]
    /\ asset_changes = <<>>
    /\ session = "closed"
    /\ txn_start = NoneInt
    /\ last_call = NoneRec
    /\ calls = 0

InitDiff == DbEmpty /\ ValIdle /\ CmpIdle /\ ScanIdle /\ ReconIdle /\ ConcIdle /\ RevisitIdle /\ MonitorIdle /\ RaceIdle

\* time passes
Tick ==
    /\ now < MaxTime
    /\ now' = now + 1
    /\ UNCHANGED <<assets, flushed, asset_changes, session, txn_start, last_call, calls>>
    /\ UNCHANGED <<valVars, cmpVars, scanVars, reconVars, concVars, revisitVars, monitorVars, raceVars>>

\* async with db_manager.get_session() as session
GetSession ==
    /\ session = "closed"
    /\ session' = "open"
    /\ UNCHANGED <<now, assets, flushed, asset_changes, txn_start, last_call, calls>>

OpenSession == GetSession /\ UNCHANGED <<valVars, cmpVars, scanVars, reconVars, concVars, revisitVars, monitorVars, raceVars>>

\* leaving get_session: commit (which flushes) and close
CommitSession ==
    /\ session = "open"
    /\ flushed' = Flush(assets, flushed, IF txn_start = NoneInt THEN now ELSE txn_start)
    /\ assets' = [k \in AssetKeys |-> NoneRec]
    /\ session' = "closed"
    /\ txn_start' = NoneInt
    /\ UNCHANGED <<now, asset_changes, last_call, calls>>

Commit == CommitSession /\ UNCHANGED <<valVars, cmpVars, scanVars, reconVars, concVars, revisitVars, monitorVars, raceVars>>

\* what last_call remembers of a call, of the call before it (prev) and of
\* all calls made so far (history)
CallRecord(key, new_data, is_new, changed_fields, clean, before) ==
    [key               |-> key,
     new_data          |-> new_data,
     is_new            |-> is_new,
     changed_fields    |-> changed_fields,
     at                |-> now,
     changes_before    |-> Len(asset_changes),
     clean_before      |-> clean,
     before            |-> before,
     prev              |-> IF last_call = NoneRec THEN NoneRec
                           ELSE [key |-> last_call.key, new_data |-> last_call.new_data],
     history           |-> (IF last_call = NoneRec THEN <<>> ELSE last_call.history)
                           \o <<[key |-> key, new_data |-> new_data]>>]

\* DiffEngine(session).compare_and_update(program_id, "subdomain", value, new_data)
compare_and_update(key, new_data) ==
    LET t        == IF txn_start = NoneInt THEN now ELSE txn_start
        existing == IF assets[key] # NoneRec THEN assets[key] ELSE flushed[key]
    IN  /\ session = "open"
        /\ calls' = calls + 1
        /\ txn_start' = t
        /\ IF flushed[key] # NoneRec
           THEN \* create_or_update found the row: last_seen and is_alive are
                \* set, the changes are detected and recorded (each
                \* record_change flushes), then the new data is stored
                LET seen     == [existing EXCEPT !.last_seen = now, !.is_alive = TRUE]
                    detected == DetectChanges(seen, new_data)
                    loaded   == [assets EXCEPT ![key] = seen]
                    rows     == IF detected = <<>> THEN flushed ELSE Flush(loaded, flushed, t)
                    objs     == IF detected = <<>> THEN loaded ELSE Refresh(loaded, rows)
                IN  /\ flushed' = rows
                    /\ assets' = [objs EXCEPT ![key] = SetAttrs(objs[key], new_data)]
                    /\ asset_changes' = asset_changes \o RecordChanges(existing.id, detected, t)
                    /\ last_call' = CallRecord(key, new_data, FALSE,
                                        [i \in 1..Len(detected) |-> detected[i].field_name],
                                        assets[key] = NoneRec \/ assets[key] = flushed[key],
                                        existing)
           ELSE \* no row: the Asset is added and flushed, then the new data
                \* is set on it
                LET id    == Cardinality({k \in AssetKeys : flushed[k] # NoneRec}) + 1
                    asset == NewAsset(id, key[1], "subdomain", key[2], t)
                    rows  == [Flush(assets, flushed, t) EXCEPT ![key] = asset]
                    objs  == [Refresh(assets, rows) EXCEPT ![key] = asset]
                IN  /\ flushed' = rows
                    /\ assets' = [objs EXCEPT ![key] = SetAttrs(asset, new_data)]
                    /\ asset_changes' = asset_changes
                    /\ last_call' = CallRecord(key, new_data, TRUE, <<>>, TRUE, NoneRec)
        /\ UNCHANGED <<now, session>>

\* a caller holding a session calls compare_and_update
CompareAndUpdate(key, new_data) ==
    /\ calls < MaxCalls
    /\ compare_and_update(key, new_data)
    /\ UNCHANGED <<valVars, cmpVars, scanVars, reconVars, concVars, revisitVars, monitorVars, raceVars>>

NextDiff ==
    \/ Tick
    \/ OpenSession
    \/ Commit
    \/ \E c \in CallUniverse : CompareAndUpdate(c[1], c[2])

SpecDiff == InitDiff /\ [][NextDiff]_vars

(***************************************************************************)
(* DiffEngine.should_scan (core/diff_engine.py).  Times are in seconds;    *)
(* clock is the sequence of values the three datetime.utcnow() calls       *)
(* return, in call order.                                                  *)
(***************************************************************************)

ScanDecision(should, reason) == [should_scan |-> should, reason |-> reason]

\* the rules with the is_alive test moved to the front
should_scan_alive_first(asset, force, clock) ==
    IF force THEN ScanDecision(TRUE, "Force scan requested")
    ELSE IF ~asset.is_alive THEN ScanDecision(FALSE, "Asset is no longer alive")
    ELSE IF clock[1] - asset.first_seen < 300 THEN ScanDecision(TRUE, "New asset (first scan)")
    ELSE IF clock[2] - asset.updated_at < 3600 THEN ScanDecision(TRUE, "Recently modified asset")
    ELSE IF clock[3] - asset.last_seen > 86400 THEN ScanDecision(TRUE, "Periodic scan (24h)")
    ELSE ScanDecision(FALSE, "No changes detected, skip scan")
\* DiffEngine.should_scan
should_scan(asset, force, clock) ==
    IF force THEN ScanDecision(TRUE, "Force scan requested")
    ELSE IF clock[1] - asset.first_seen < 300 THEN ScanDecision(TRUE, "New asset (first scan)")
    ELSE IF clock[2] - asset.updated_at < 3600 THEN ScanDecision(TRUE, "Recently modified asset")
    ELSE IF ~asset.is_alive THEN ScanDecision(FALSE, "Asset is no longer alive")
    ELSE IF clock[3] - asset.last_seen > 86400 THEN ScanDecision(TRUE, "Periodic scan (24h)")
    ELSE ScanDecision(FALSE, "No changes detected, skip scan")

\* the time of the call
CallTime == 100000

\* how long before the call the asset's timestamps lie
Ages == {60, 299, 300, 3599, 3600, 86400, 86401}

\* the most seconds that pass between two readings of the clock
MaxDrift == 1

\* the assets handed to should_scan: rows as the assets table holds them,
\* first_seen <= updated_at <= last_seen
ScanAssets ==
    {[first_seen |-> CallTime - a[1], updated_at |-> CallTime - a[2],
      last_seen |-> CallTime - a[3], is_alive |-> alive] :
        a \in {b \in Ages \X Ages \X Ages : b[1] >= b[2] /\ b[2] >= b[3]},
        alive \in BOOLEAN}

Clocks ==
    {<<CallTime, CallTime + d[1], CallTime + d[1] + d[2]>> :
        d \in (0..MaxDrift) \X (0..MaxDrift)}

(***************************************************************************)
(* SpecScan: should_scan is asked about one asset                          *)
(***************************************************************************)

InitScan ==
    /\ sd_asset \in ScanAssets
    /\ sd_force \in BOOLEAN
    /\ sd_clock \in Clocks
    /\ sd_result = NoneRec
    /\ ValIdle /\ CmpIdle /\ DbIdle /\ ReconIdle /\ ConcIdle /\ RevisitIdle /\ MonitorIdle /\ RaceIdle

\* DiffEngine(session).should_scan(asset, force)
ShouldScan ==
    /\ sd_result = NoneRec
    /\ sd_result' = should_scan(sd_asset, sd_force, sd_clock)
    /\ UNCHANGED <<sd_asset, sd_force, sd_clock, valVars, cmpVars, dbVars, reconVars, concVars, revisitVars, monitorVars, raceVars>>

NextScan == ShouldScan

SpecScan == InitScan /\ [][NextScan]_vars

(***************************************************************************)
(* The reconnaissance flows (workflows/reconnaissance.py).  The scanners   *)
(* are the environment: Subfinder reports hosts at or below the domain it  *)
(* is asked about, any of them may resolve, and httpx answers for any of   *)
(* its targets.  The clock stands still during the flows.                  *)
(***************************************************************************)

\* the program_id the flows are started with
ProgramId == 1

\* the hosts that exist
Hosts == {k[2] : k \in AssetKeys}

\* the Program row with id ProgramId, when there is one
Programs ==
    {[id |-> ProgramId, in_scope |-> i, out_of_scope |-> o] :
        i \in {<<>>, <<Str_a_c>>}, o \in {<<>>, <<Str_t_a_c>>}}

MaxCycles == 2

\* what SubfinderScanner.scan can return over the root domains
Discoverable(domains) ==
    {h \in Hosts : \E i \in 1..Len(domains) :
        h = domains[i] \/ EndsWith(h, <<".">> \o domains[i])}

\* alive_domains = [d for d, ips in dns_results.items() if ips]
AliveDomains(dns) == {h \in DOMAIN dns : dns[h] # <<>>}

\* a result of HttpxScanner.probe for a target
HttpxResult(host, status_code) ==
    [host          |-> host,
     status_code   |-> status_code,
     content_length |-> 1000,
     title         |-> Title_A,
     technologies  |-> <<Tech_php>>,
     response_hash |-> Hash_1]

\* update_assets_task: asset_data for one probe result
AssetData(result, dns) ==
    [http_status    |-> result.status_code,
     content_length |-> result.content_length,
     page_title     |-> result.title,
     technologies   |-> result.technologies,
     response_hash  |-> result.response_hash,
     resolved_ips   |-> IF result.host \in DOMAIN dns THEN dns[result.host] ELSE <<>>]

\* probe_http_task: httpx answers for some of the targets
ProbeOutcomes(targets) ==
    {{HttpxResult(h, st[h]) : h \in answered} :
        answered \in SUBSET targets, st \in [targets -> {200, 403}]}

\* no flow is running
NoFlow == rpc \in {"idle", "raised", "error", "done", "ImportError"}

InitRecon ==
    /\ program \in Programs \cup {NoneRec}
    /\ rpc = "idle" /\ flow = "none" /\ subdomains = {} /\ dns_results = <<>>
    /\ port_scanned = {} /\ http_probed = {} /\ probe_results = {} /\ cycles = 0
    /\ DbEmpty
    /\ ValIdle /\ CmpIdle /\ ScanIdle /\ ConcIdle /\ RevisitIdle /\ MonitorIdle /\ RaceIdle

\* reconnaissance_flow, step 1: get the program scope
StartReconnaissance ==
    /\ NoFlow
    /\ cycles < MaxCycles
    /\ cycles' = cycles + 1
    /\ flow' = "full"
    /\ rpc' = IF program = NoneRec THEN "raised"
              ELSE IF program.in_scope = <<>> THEN "raised"
              ELSE "enumerate"
    /\ subdomains' = {}
    /\ dns_results' = <<>>
    /\ probe_results' = {}
    /\ UNCHANGED <<program, port_scanned, http_probed>>
    /\ UNCHANGED <<valVars, cmpVars, dbVars, scanVars, concVars, revisitVars, monitorVars, raceVars>>

\* step 2: enumerate_subdomains_task(root_domains)
EnumerateSubdomains ==
    /\ rpc = "enumerate"
    /\ \E found \in SUBSET Discoverable(program.in_scope) :
          /\ subdomains' = found
          /\ rpc' = IF found = {} THEN "error" ELSE "resolve"
    /\ UNCHANGED <<program, flow, dns_results, port_scanned, http_probed, probe_results, cycles>>
    /\ UNCHANGED <<valVars, cmpVars, dbVars, scanVars, concVars, revisitVars, monitorVars, raceVars>>

\* step 3: resolve_dns_task(list(subdomains))
ResolveDns ==
    /\ rpc = "resolve"
    /\ \E alive \in SUBSET subdomains :
          /\ dns_results' = [h \in subdomains |-> IF h \in alive THEN <<Str_ip4>> ELSE <<>>]
          /\ rpc' = IF alive = {} THEN "error" ELSE "scan_ports"
    /\ UNCHANGED <<program, flow, subdomains, port_scanned, http_probed, probe_results, cycles>>
    /\ UNCHANGED <<valVars, cmpVars, dbVars, scanVars, concVars, revisitVars, monitorVars, raceVars>>

\* step 4: scan_ports_task(alive_domains[:100]); save_ports_task stores nothing
ScanPorts ==
    /\ rpc = "scan_ports"
    /\ port_scanned' = port_scanned \cup AliveDomains(dns_results)
    /\ rpc' = "probe"
    /\ UNCHANGED <<program, flow, subdomains, dns_results, http_probed, probe_results, cycles>>
    /\ UNCHANGED <<valVars, cmpVars, dbVars, scanVars, concVars, revisitVars, monitorVars, raceVars>>

\* step 5: probe_http_task(alive_domains)
ProbeHttp ==
    /\ rpc = "probe"
    /\ http_probed' = http_probed \cup AliveDomains(dns_results)
    /\ probe_results' \in ProbeOutcomes(AliveDomains(dns_results))
    /\ rpc' = "update"
    /\ UNCHANGED <<program, flow, subdomains, dns_results, port_scanned, cycles>>
    /\ UNCHANGED <<valVars, cmpVars, dbVars, scanVars, concVars, revisitVars, monitorVars, raceVars>>

\* quick_recon_flow up to update_assets_task: the alive assets of the
\* program are read and probed; dns_results is empty
StartQuickRecon ==
    LET targets == {k[2] : k \in {j \in AssetKeys : /\ flushed[j] # NoneRec
                                                     /\ j[1] = ProgramId
                                                     /\ flushed[j].is_alive}}
    IN  /\ NoFlow
        /\ cycles < MaxCycles
        /\ cycles' = cycles + 1
        /\ flow' = "quick"
        /\ subdomains' = {}
        /\ dns_results' = <<>>
        /\ IF targets = {}
           THEN /\ rpc' = "error"
                /\ probe_results' = {}
                /\ UNCHANGED http_probed
           ELSE /\ rpc' = "update"
                /\ http_probed' = http_probed \cup targets
                /\ probe_results' \in ProbeOutcomes(targets)
        /\ UNCHANGED <<program, port_scanned>>
        /\ UNCHANGED <<valVars, cmpVars, dbVars, scanVars, concVars, revisitVars, monitorVars, raceVars>>

\* get_previous_scope_task: the latest ScopeHistory row of the program as a
\* ScopeData, or None.  The select orders by ScopeHistory.checked_at, a
\* column ScopeHistory does not have.
get_previous_scope_task(history) == Raises("AttributeError")

\* compare_scope_task(previous, current): the outcomes it can have
compare_scope_task(prev, curr) ==
    IF prev = NoneRec
    THEN {Returns([has_changes |-> TRUE, is_first_check |-> TRUE])}
    ELSE {IF Returned(outcome)
          THEN Returns([has_changes    |-> outcome.value.has_changes,
                        is_first_check |-> FALSE])
          ELSE outcome : outcome \in compare(prev, curr)}

\* save_scope_snapshot_task: the ScopeHistory row is built with
\* checksum=scope_data.checksum(), a method ScopeData does not have, so no
\* row is added
save_scope_snapshot_task(history, curr) == Raises("AttributeError")

\* validate_program_assets_task: with no alive asset of the program the
\* counts are returned; otherwise the loop reads asset.in_scope, a column
\* Asset does not have
validate_program_assets_task(rows, sd) ==
    IF \A k \in AssetKeys : rows[k] = NoneRec \/ k[1] # ProgramId \/ ~rows[k].is_alive
    THEN Returns([total |-> 0, in_scope |-> 0, out_scope |-> 0])
    ELSE Raises("AttributeError")

\* the body of monitor_program_scope_flow(program_id): a program that is not
\* found is answered with an error dict; for one that is found the flow
\* reads program.handle, an attribute Program does not have
MonitorBody(prog) ==
    IF prog = NoneRec THEN Returns([error |-> "Program not found"])
    ELSE Raises("AttributeError")

\* monitor_program_scope_flow as a caller reaches it: the module's
\* "from src.db import get_session" names nothing that src/db/__init__.py
\* defines, so importing the module raises
monitor_program_scope_flow(prog) == Raises("ImportError")

\* a caller runs a scope-monitoring cycle for the program id
MonitorProgramScope ==
    /\ NoFlow
    /\ cycles < MaxCycles
    /\ cycles' = cycles + 1
    /\ flow' = "scope_monitoring"
    /\ rpc' = LET outcome == monitor_program_scope_flow(program)
              IN  IF Returned(outcome)
                  THEN (IF "error" \in DOMAIN outcome.value THEN "error" ELSE "done")
                  ELSE outcome.exception
    /\ monitor_result' = monitor_program_scope_flow(program)
    /\ scope_history' = scope_history
    /\ subdomains' = {}
    /\ dns_results' = <<>>
    /\ probe_results' = {}
    /\ UNCHANGED <<program, port_scanned, http_probed>>
    /\ UNCHANGED <<valVars, cmpVars, dbVars, scanVars, concVars, revisitVars, raceVars>>

\* update_assets_task: the session is opened
UpdateAssetsBegin ==
    /\ rpc = "update"
    /\ rpc' = "updating"
    /\ GetSession
    /\ UNCHANGED <<program, flow, subdomains, dns_results, port_scanned, http_probed,
                   probe_results, cycles>>
    /\ UNCHANGED <<valVars, cmpVars, scanVars, concVars, revisitVars, monitorVars, raceVars>>

\* update_assets_task: one turn of the loop over probe_results
UpdateAsset ==
    /\ rpc = "updating"
    /\ \E result \in probe_results :
          /\ compare_and_update(<<ProgramId, result.host>>, AssetData(result, dns_results))
          /\ probe_results' = probe_results \ {result}
    /\ UNCHANGED <<program, rpc, flow, subdomains, dns_results, port_scanned, http_probed, cycles>>
    /\ UNCHANGED <<valVars, cmpVars, scanVars, concVars, revisitVars, monitorVars, raceVars>>

\* update_assets_task: the loop is over, the session commits; the flow returns
UpdateAssetsEnd ==
    /\ rpc = "updating"
    /\ probe_results = {}
    /\ rpc' = "done"
    /\ CommitSession
    /\ UNCHANGED <<program, flow, subdomains, dns_results, port_scanned, http_probed,
                   probe_results, cycles>>
    /\ UNCHANGED <<valVars, cmpVars, scanVars, concVars, revisitVars, monitorVars, raceVars>>

NextRecon ==
    \/ StartReconnaissance
    \/ EnumerateSubdomains
    \/ ResolveDns
    \/ ScanPorts
    \/ ProbeHttp
    \/ StartQuickRecon
    \/ MonitorProgramScope
    \/ UpdateAssetsBegin
    \/ UpdateAsset
    \/ UpdateAssetsEnd

SpecRecon == InitRecon /\ [][NextRecon]_vars

(***************************************************************************)
(* Concurrent sessions: update_assets_task runs side by side, each in its  *)
(* own session and transaction.  A select sees the committed rows and the  *)
(* transaction's own writes.  compare_and_update is two steps,             *)
(* create_or_update and the rest, and the steps of the workers interleave. *)
(* A worker calls for a key only while no other worker's open transaction  *)
(* has read or written that key.                                           *)
(***************************************************************************)

Workers == {1, 2}

MaxWorkerCalls == 3
MaxWorkerTime  == 1

\* the probe records the workers hand over
WorkerRecords ==
    {BaseRecord, [BaseRecord EXCEPT !.http_status = 403, !.content_length = 1101]}

NoRows == [k \in AssetKeys |-> NoneRec]

\* a worker outside "async with db_manager.get_session()"
ClosedSession ==
    [session |-> "closed", objs |-> NoRows, rows |-> NoRows, changes |-> <<>>,
     start |-> NoneInt, pending |-> NoneRec]

InitConc ==
    /\ db = [rows |-> NoRows, changes |-> <<>>, next_id |-> 1, clock |-> 0]
    /\ txns = [w \in Workers |-> ClosedSession]
    /\ trace = [prev |-> NoRows, last |-> NoneRec, calls |-> 0]
    /\ ValIdle /\ CmpIdle /\ DbIdle /\ ScanIdle /\ ReconIdle /\ RevisitIdle /\ MonitorIdle /\ RaceIdle

\* the assets rows worker w's transaction sees
Visible(w) ==
    [k \in AssetKeys |-> IF txns[w].rows[k] # NoneRec THEN txns[w].rows[k] ELSE db.rows[k]]

\* the keys the open transaction of worker w has read or written
InFlight(w) ==
    {k \in AssetKeys : txns[w].objs[k] # NoneRec \/ txns[w].rows[k] # NoneRec}

\* the transaction's own rows after a flush that made the visible rows `rows'
OwnRows(w, rows) ==
    [k \in AssetKeys |->
        IF txns[w].objs[k] # NoneRec /\ txns[w].objs[k] # Visible(w)[k]
        THEN rows[k] ELSE txns[w].rows[k]]

\* time passes
WorkerTick ==
    /\ db.clock < MaxWorkerTime
    /\ db' = [db EXCEPT !.clock = @ + 1]
    /\ UNCHANGED <<txns, trace>>
    /\ UNCHANGED <<valVars, cmpVars, dbVars, scanVars, reconVars, revisitVars, monitorVars, raceVars>>

\* async with db_manager.get_session() as session
WorkerOpen(w) ==
    /\ txns[w].session = "closed"
    /\ txns' = [txns EXCEPT ![w] = [ClosedSession EXCEPT !.session = "open"]]
    /\ UNCHANGED <<db, trace>>
    /\ UNCHANGED <<valVars, cmpVars, dbVars, scanVars, reconVars, revisitVars, monitorVars, raceVars>>

\* compare_and_update, first step: AssetRepository.create_or_update
WorkerCreateOrUpdate(w, key, new_data) ==
    LET txn      == txns[w]
        t        == IF txn.start = NoneInt THEN db.clock ELSE txn.start
        existing == IF txn.objs[key] # NoneRec THEN txn.objs[key] ELSE Visible(w)[key]
    IN  /\ txn.session = "open"
        /\ txn.pending = NoneRec
        /\ trace.calls < MaxWorkerCalls
        /\ \A other \in Workers \ {w} : key \notin InFlight(other)
        /\ IF existing # NoneRec
           THEN /\ txns' = [txns EXCEPT ![w] =
                            [txn EXCEPT !.start = t,
                                        !.objs[key] = [existing EXCEPT !.last_seen = db.clock,
                                                                       !.is_alive = TRUE],
                                        !.pending = [key |-> key, new_data |-> new_data,
                                                     is_new |-> FALSE]]]
                /\ db' = db
           ELSE LET asset == NewAsset(db.next_id, key[1], "subdomain", key[2], t)
                    rows  == Flush(txn.objs, Visible(w), t)
                IN  /\ txns' = [txns EXCEPT ![w] =
                                [txn EXCEPT !.start = t,
                                            !.rows = [OwnRows(w, rows) EXCEPT ![key] = asset],
                                            !.objs = [Refresh(txn.objs, rows) EXCEPT ![key] = asset],
                                            !.pending = [key |-> key, new_data |-> new_data,
                                                         is_new |-> TRUE]]]
                    /\ db' = [db EXCEPT !.next_id = @ + 1]
        /\ trace' = [trace EXCEPT !.calls = @ + 1]
        /\ UNCHANGED <<valVars, cmpVars, dbVars, scanVars, reconVars, revisitVars, monitorVars, raceVars>>

\* compare_and_update, second step: _detect_changes with its record_change
\* calls, the setattr loop, and the return
WorkerDetectAndStore(w) ==
    LET txn      == txns[w]
        call     == txn.pending
        detected == IF call.is_new THEN <<>>
                    ELSE DetectChanges(txn.objs[call.key], call.new_data)
        rows     == IF detected = <<>> THEN Visible(w) ELSE Flush(txn.objs, Visible(w), txn.start)
        own      == IF detected = <<>> THEN txn.rows ELSE OwnRows(w, rows)
        objs     == IF detected = <<>> THEN txn.objs ELSE Refresh(txn.objs, rows)
        recorded == RecordChanges(txn.objs[call.key].id, detected, txn.start)
    IN  /\ txn.pending # NoneRec
        /\ txns' = [txns EXCEPT ![w] =
                    [txn EXCEPT !.rows = own,
                                !.objs = [objs EXCEPT ![call.key] =
                                              SetAttrs(objs[call.key], call.new_data)],
                                !.changes = @ \o recorded,
                                !.pending = NoneRec]]
        /\ trace' = [trace EXCEPT
                        !.prev[call.key] = call.new_data,
                        !.last = [worker         |-> w,
                                  key            |-> call.key,
                                  new_data       |-> call.new_data,
                                  is_new         |-> call.is_new,
                                  changed_fields |-> [i \in 1..Len(detected) |->
                                                         detected[i].field_name],
                                  prev           |-> trace.prev[call.key]]]
        /\ db' = db
        /\ UNCHANGED <<valVars, cmpVars, dbVars, scanVars, reconVars, revisitVars, monitorVars, raceVars>>

\* a commit that writes no row
CommittedRowsNone(w) == db.rows
\* the assets table after worker w's commit, which flushes first
CommittedRows(w) ==
    Flush(txns[w].objs, Visible(w),
          IF txns[w].start = NoneInt THEN db.clock ELSE txns[w].start)

\* leaving get_session: commit and close
WorkerCommit(w) ==
    /\ txns[w].session = "open"
    /\ txns[w].pending = NoneRec
    /\ db' = [db EXCEPT !.rows = CommittedRows(w), !.changes = @ \o txns[w].changes]
    /\ txns' = [txns EXCEPT ![w] = ClosedSession]
    /\ UNCHANGED trace
    /\ UNCHANGED <<valVars, cmpVars, dbVars, scanVars, reconVars, revisitVars, monitorVars, raceVars>>

NextConc ==
    \/ WorkerTick
    \/ \E w \in Workers : WorkerOpen(w)
    \/ \E w \in Workers, k \in AssetKeys, d \in WorkerRecords : WorkerCreateOrUpdate(w, k, d)
    \/ \E w \in Workers : WorkerDetectAndStore(w)
    \/ \E w \in Workers : WorkerCommit(w)

SpecConc == InitConc /\ [][NextConc]_vars

(***************************************************************************)
(* Periodic cycles: one alive asset is probed in every cycle with the same *)
(* probe record.  A cycle starts some time after the previous one, opens a *)
(* session, calls compare_and_update and commits.  should_scan is asked    *)
(* about the asset once per cycle, after the observation: about the object *)
(* compare_and_update returned, before the session ends, or about the row  *)
(* read back some time after the commit.                                   *)
(***************************************************************************)

\* the asset of the cycles and its probe record
RevisitKey == <<1, Str_a_c>>

\* seconds between the start of a cycle and the end of the previous one
CyclePeriods == {3600, 43200, 86400}

\* seconds between a cycle's commit and a should_scan about the stored row
EvaluationDelays == {0, 1800, 3600}

MaxRevisits == 3

InitRevisit ==
    /\ revisit = [phase |-> "idle", cycles |-> 0, evaluated |-> NoneRec,
                  selected_at |-> NoneInt]
    /\ DbEmpty
    /\ ValIdle /\ CmpIdle /\ ScanIdle /\ ReconIdle /\ ConcIdle /\ MonitorIdle /\ RaceIdle

\* the time until the next cycle passes
CycleWait(period) ==
    /\ revisit.phase = "idle"
    /\ revisit.cycles < MaxRevisits
    /\ now' = now + period
    /\ revisit' = [revisit EXCEPT !.phase = "due", !.cycles = @ + 1]
    /\ UNCHANGED <<assets, flushed, asset_changes, session, txn_start, last_call, calls>>
    /\ UNCHANGED <<valVars, cmpVars, scanVars, reconVars, concVars, monitorVars, raceVars>>

\* update_assets_task: the session is opened
CycleOpen ==
    /\ revisit.phase = "due"
    /\ GetSession
    /\ revisit' = [revisit EXCEPT !.phase = "open"]
    /\ UNCHANGED <<valVars, cmpVars, scanVars, reconVars, concVars, monitorVars, raceVars>>

\* the asset is observed with the same data as before
CycleObserve ==
    /\ revisit.phase = "open"
    /\ compare_and_update(RevisitKey, BaseRecord)
    /\ revisit' = [revisit EXCEPT !.phase = "observed"]
    /\ UNCHANGED <<valVars, cmpVars, scanVars, reconVars, concVars, monitorVars, raceVars>>

\* what revisit remembers of a should_scan call made at time t
Evaluated(decision, t, in_session) ==
    [revisit EXCEPT
        !.evaluated = [decision |-> decision, at |-> t, in_session |-> in_session],
        !.selected_at = IF decision.should_scan THEN t ELSE @]

\* diff_engine.should_scan(asset) with the asset compare_and_update returned
EvaluateReturned ==
    /\ revisit.phase = "observed"
    /\ revisit' = [Evaluated(should_scan(assets[RevisitKey], FALSE, <<now, now, now>>),
                             now, TRUE)
                   EXCEPT !.phase = "evaluated"]
    /\ UNCHANGED dbVars
    /\ UNCHANGED <<valVars, cmpVars, scanVars, reconVars, concVars, monitorVars, raceVars>>

\* the session block ends: commit
CycleCommit ==
    /\ revisit.phase \in {"observed", "evaluated"}
    /\ CommitSession
    /\ revisit' = [revisit EXCEPT !.phase = IF @ = "observed" THEN "committed" ELSE "idle"]
    /\ UNCHANGED <<valVars, cmpVars, scanVars, reconVars, concVars, monitorVars, raceVars>>

\* should_scan(asset) with the asset read back from the table, delay seconds
\* after the commit
EvaluateStored(delay) ==
    /\ revisit.phase = "committed"
    /\ now' = now + delay
    /\ revisit' = [Evaluated(should_scan(flushed[RevisitKey], FALSE, <<now', now', now'>>),
                             now', FALSE)
                   EXCEPT !.phase = "idle"]
    /\ UNCHANGED <<assets, flushed, asset_changes, session, txn_start, last_call, calls>>
    /\ UNCHANGED <<valVars, cmpVars, scanVars, reconVars, concVars, monitorVars, raceVars>>

NextRevisit ==
    \/ \E period \in CyclePeriods : CycleWait(period)
    \/ CycleOpen
    \/ CycleObserve
    \/ EvaluateReturned
    \/ CycleCommit
    \/ \E delay \in EvaluationDelays : EvaluateStored(delay)

SpecRevisit == InitRevisit /\ [][NextRevisit]_vars

(***************************************************************************)
(* Racing inserts: create_or_update is a select followed, when no row is   *)
(* found, by an INSERT at the flush, and the two statements of one worker  *)
(* interleave with those of the other.  The table is a set of rows, and    *)
(* the constraint uq_program_asset is what the database does with an       *)
(* INSERT under READ COMMITTED: it fails when a committed row has the key, *)
(* waits while an open transaction holds an uncommitted row with the key,  *)
(* and goes ahead when that transaction is rolled back.  A failed flush    *)
(* rolls the transaction back; two transactions waiting for each other are *)
(* a deadlock, which the database ends by failing one of them.             *)
(***************************************************************************)

MaxRaceCalls == 4

\* a row of the assets table
AssetRow(id, key) == [id |-> id, program_id |-> key[1], value |-> key[2]]

\* the rows with the key (program_id, value)
RowsWithKey(rows, key) == {r \in rows : r.program_id = key[1] /\ r.value = key[2]}

\* a table without the constraint
ConflictsNever(rows, key) == FALSE
\* UniqueConstraint("program_id", "value"): a row with the key stands in the
\* way of an INSERT
Conflicts(rows, key) == RowsWithKey(rows, key) # {}

NoTransaction ==
    [phase |-> "closed", key |-> <<>>, own |-> {}, waited |-> FALSE, raced |-> FALSE,
     returned |-> NoneRec]

InitRace ==
    /\ race = [table |-> {}, next_id |-> 1, calls |-> 0,
               new_raced |-> [k \in AssetKeys |-> 0],
               txn |-> [w \in Workers |-> NoTransaction]]
    /\ ValIdle /\ CmpIdle /\ DbIdle /\ ScanIdle /\ ReconIdle /\ ConcIdle /\ RevisitIdle
    /\ MonitorIdle

\* the uncommitted rows of the transactions other than w's
HeldByOthers(w) == UNION {race.txn[o].own : o \in Workers \ {w}}

\* async with db_manager.get_session() as session
RaceOpen(w) ==
    /\ race.txn[w].phase = "closed"
    /\ race.calls < MaxRaceCalls
    /\ race' = [race EXCEPT !.txn[w] = [NoTransaction EXCEPT !.phase = "open"]]
    /\ UNCHANGED <<valVars, cmpVars, dbVars, scanVars, reconVars, concVars, revisitVars, monitorVars>>

\* the workers other than w that are between the select and the end of the
\* INSERT of a create_or_update for the key
MidCall(w, key) ==
    {o \in Workers \ {w} : race.txn[o].phase \in {"selected", "waiting"}
                            /\ race.txn[o].key = key}

\* create_or_update, the select: the committed rows and the transaction's
\* own are visible; scalar_one_or_none returns the row, None, or raises when
\* there are several.  raced marks the calls for a key that overlap.
RaceSelect(w, key) ==
    LET txn   == race.txn[w]
        found == RowsWithKey(race.table \cup txn.own, key)
        marked == [o \in Workers |->
                     IF found = {} /\ o \in MidCall(w, key)
                     THEN [race.txn[o] EXCEPT !.raced = TRUE] ELSE race.txn[o]]
    IN  /\ txn.phase = "open"
        /\ race.calls < MaxRaceCalls
        /\ race' = [[race EXCEPT !.txn = marked] EXCEPT
                       !.calls = @ + 1,
                       !.txn[w] =
                           IF found = {}
                           THEN [txn EXCEPT !.phase = "selected", !.key = key,
                                            !.waited = FALSE,
                                            !.raced = MidCall(w, key) # {}]
                           ELSE IF Cardinality(found) = 1
                           THEN [txn EXCEPT !.returned = [key |-> key, is_new |-> FALSE,
                                                          waited |-> FALSE,
                                                          exception |-> "none"]]
                           ELSE [txn EXCEPT !.phase = "failed", !.own = {},
                                            !.returned = [key |-> key, is_new |-> FALSE,
                                                          waited |-> FALSE,
                                                          exception |-> "MultipleResultsFound"]]]
        /\ UNCHANGED <<valVars, cmpVars, dbVars, scanVars, reconVars, concVars, revisitVars, monitorVars>>

\* create_or_update, session.add(asset) and flush: the INSERT
RaceInsert(w) ==
    LET txn == race.txn[w]
    IN  /\ txn.phase \in {"selected", "waiting"}
        /\ IF Conflicts(race.table, txn.key)
           THEN \* IntegrityError out of the flush; the transaction is rolled back
                race' = [race EXCEPT
                            !.next_id = @ + 1,
                            !.txn[w] = [txn EXCEPT !.phase = "failed", !.own = {},
                                                   !.returned = [key |-> txn.key,
                                                                 is_new |-> FALSE,
                                                                 waited |-> txn.phase = "waiting",
                                                                 exception |-> "IntegrityError"]]]
           ELSE IF Conflicts(HeldByOthers(w), txn.key)
           THEN \* the INSERT waits for the other transaction to end
                /\ txn.phase = "selected"
                /\ race' = [race EXCEPT !.txn[w] = [txn EXCEPT !.phase = "waiting",
                                                               !.waited = TRUE]]
           ELSE \* the row is inserted; create_or_update returns (asset, True)
                race' = [race EXCEPT
                            !.next_id = @ + 1,
                            !.new_raced[txn.key] = IF txn.raced THEN @ + 1 ELSE @,
                            !.txn[w] = [txn EXCEPT !.phase = "open",
                                                   !.own = @ \cup {AssetRow(race.next_id, txn.key)},
                                                   !.returned = [key |-> txn.key,
                                                                 is_new |-> TRUE,
                                                                 waited |-> txn.waited,
                                                                 exception |-> "none"]]]
        /\ UNCHANGED <<valVars, cmpVars, dbVars, scanVars, reconVars, concVars, revisitVars, monitorVars>>

\* both transactions wait for a row the other holds: the database fails the
\* INSERT of one of them, and its transaction is rolled back
RaceDeadlock(w) ==
    LET txn == race.txn[w]
    IN  /\ txn.phase = "waiting"
        /\ \E o \in Workers \ {w} :
              /\ race.txn[o].phase = "waiting"
              /\ Conflicts(race.txn[o].own, txn.key)
              /\ Conflicts(txn.own, race.txn[o].key)
        /\ race' = [race EXCEPT
                       !.txn[w] = [txn EXCEPT !.phase = "failed", !.own = {},
                                              !.returned = [key |-> txn.key,
                                                            is_new |-> FALSE,
                                                            waited |-> TRUE,
                                                            exception |-> "DBAPIError"]]]
        /\ UNCHANGED <<valVars, cmpVars, dbVars, scanVars, reconVars, concVars, revisitVars, monitorVars>>

\* leaving get_session after the calls: commit and close
RaceCommit(w) ==
    /\ race.txn[w].phase = "open"
    /\ race' = [race EXCEPT !.table = @ \cup race.txn[w].own,
                            !.txn[w] = [race.txn[w] EXCEPT !.phase = "closed", !.own = {}]]
    /\ UNCHANGED <<valVars, cmpVars, dbVars, scanVars, reconVars, concVars, revisitVars, monitorVars>>

\* leaving get_session after a failed flush: rollback, close, raise
RaceRollback(w) ==
    /\ race.txn[w].phase = "failed"
    /\ race' = [race EXCEPT !.txn[w] = [race.txn[w] EXCEPT !.phase = "closed"]]
    /\ UNCHANGED <<valVars, cmpVars, dbVars, scanVars, reconVars, concVars, revisitVars, monitorVars>>

NextRace ==
    \/ \E w \in Workers : RaceOpen(w)
    \/ \E w \in Workers, key \in AssetKeys : RaceSelect(w, key)
    \/ \E w \in Workers : RaceInsert(w)
    \/ \E w \in Workers : RaceDeadlock(w)
    \/ \E w \in Workers : RaceCommit(w)
    \/ \E w \in Workers : RaceRollback(w)

SpecRace == InitRace /\ [][NextRace]_vars

(***************************************************************************)
(* Claims about ScopeValidator                                             *)
(***************************************************************************)

\* the asset as validate normalizes it
Normalized(asset) == Strip(Lower(asset))

\* an out-of-scope rule of the claim's three kinds covers the asset
ExcludedBy(sd, asset) ==
    LET a == Normalized(asset)
    IN  \/ \E i \in 1..Len(sd.out_of_scope) :
              RuleKind(sd.out_of_scope[i]) = "exact" /\ sd.out_of_scope[i] = a
        \/ \E i \in 1..Len(sd.out_of_scope) :
              RuleKind(sd.out_of_scope[i]) = "pattern" /\ PatternMatch(sd.out_of_scope[i], a)
        \/ /\ IpAddress(a) # Invalid
           /\ \E i \in 1..Len(sd.out_of_scope) :
                 /\ RuleKind(sd.out_of_scope[i]) = "cidr"
                 /\ InNetwork(IpAddress(a), IpNetwork(sd.out_of_scope[i]))

\* C1: exclusion precedence.  An asset that equals an exact out-of-scope
\* entry, matches an out-of-scope wildcard or is an IP literal inside an
\* out-of-scope CIDR is never returned with in_scope = true.
C1_ExclusionPrecedence ==
    (v_result # NoneRec /\ ExcludedBy(scope_data, v_asset)) => v_result.in_scope = FALSE

\* the exact entries of a rule list: no wildcard, no slash; compared
\* without case
ExactEntries(list) ==
    {Lower(list[i]) : i \in {j \in 1..Len(list) :
                                ~Contains(list[j], "*") /\ ~Contains(list[j], "/")}}

\* a rule matches the normalized candidate a as an exact entry, as a
\* wildcard, or as a CIDR that holds the IP literal a
RuleMatches(rule, a) ==
    IF Contains(rule, "*") THEN PatternMatch(rule, a)
    ELSE IF Contains(rule, "/")
         THEN /\ IpAddress(a) # Invalid
              /\ IpNetwork(rule) # Invalid
              /\ InNetwork(IpAddress(a), IpNetwork(rule))
         ELSE Lower(rule) = a

AnyRuleMatches(list, a) == \E i \in 1..Len(list) : RuleMatches(list[i], a)

\* a is a strict subdomain of d
StrictSubdomain(a, d) == a # d /\ EndsWith(a, <<".">> \o d)

\* the case C11 is about: a strict subdomain of an exact in-scope entry
\* that no rule of either list matches
WideningCase ==
    /\ v_result # NoneRec
    /\ \E d \in ExactEntries(scope_data.in_scope) : StrictSubdomain(Normalized(v_asset), d)
    /\ ~AnyRuleMatches(scope_data.out_of_scope, Normalized(v_asset))
    /\ ~AnyRuleMatches(scope_data.in_scope, Normalized(v_asset))

\* C11: subdomain widening.  A candidate that is a strict subdomain of an
\* exact in-scope entry, and that no out-of-scope rule and no in-scope exact,
\* wildcard or CIDR rule matches, is returned in scope with the reason
\* "Subdomain of in-scope domain" and a matched_rule that is an exact
\* in-scope entry of which it is a strict subdomain.
C11_SubdomainWidening ==
    WideningCase =>
        /\ v_result.in_scope = TRUE
        /\ v_result.reason = "Subdomain of in-scope domain"
        /\ v_result.matched_rule \in ExactEntries(scope_data.in_scope)
        /\ StrictSubdomain(Normalized(v_asset), v_result.matched_rule)

\* the candidate "T.A.C " below the entry A.c, with an exclusion listed
C11_Witness ==
    /\ WideningCase
    /\ v_asset = Str_T_A_C_sp
    /\ scope_data.out_of_scope # <<>>
    /\ v_result.matched_rule = Str_a_c

\* one of the four ways the in-scope list can cover the normalized candidate
CoveredByInScope(sd, a) ==
    \/ AnyRuleMatches(sd.in_scope, a)
    \/ \E d \in ExactEntries(sd.in_scope) : StrictSubdomain(a, d)

NotFound(result) ==
    /\ result.in_scope = FALSE
    /\ result.reason = "Not found in program scope"
    /\ result.matched_rule = NoneStr

Str_http  == <<"h", "t", "t", "p", ":", "/", "/">>
Str_https == <<"h", "t", "t", "p", "s", ":", "/", "/">>

StartsWith(s, t) == Len(s) >= Len(t) /\ SubSeq(s, 1, Len(t)) = t

\* the candidate without an http:// or https:// prefix
WithoutScheme(s) ==
    IF StartsWith(s, Str_https) THEN SubSeq(s, Len(Str_https) + 1, Len(s))
    ELSE IF StartsWith(s, Str_http) THEN SubSeq(s, Len(Str_http) + 1, Len(s))
    ELSE s

\* the candidate without trailing slashes
RECURSIVE WithoutTrailingSlash(_)
WithoutTrailingSlash(s) ==
    IF s # <<>> /\ s[Len(s)] = "/" THEN WithoutTrailingSlash(SubSeq(s, 1, Len(s) - 1))
    ELSE s

\* the candidate without scheme and trailing slash, in lower case
Bare(asset) == Lower(WithoutTrailingSlash(WithoutScheme(asset)))

\* C15: candidate normalization.  validate answers a candidate as it answers
\* the same candidate without its http:// or https:// prefix, without its
\* trailing slash and in lower case: the same in_scope and the same matched
\* rule.
C15_CandidateNormalization ==
    v_result # NoneRec
    => \E r \in validate(scope_data, Bare(v_asset)) :
          /\ r.in_scope = v_result.in_scope
          /\ r.matched_rule = v_result.matched_rule

\* a rule with "/" and no "*" that ip_network rejects
InvalidNetwork(rule) ==
    /\ Contains(rule, "/")
    /\ ~Contains(rule, "*")
    /\ IpNetwork(rule) = Invalid

\* the list without its invalid networks
RECURSIVE WithoutInvalid(_)
WithoutInvalid(list) ==
    IF list = <<>> THEN <<>>
    ELSE IF InvalidNetwork(Head(list)) THEN WithoutInvalid(Tail(list))
    ELSE <<Head(list)>> \o WithoutInvalid(Tail(list))

\* C24: local leniency.  Whatever strings the lists and the candidate are,
\* validate returns a result; a rule containing "/" that is not a valid
\* network is never the matched rule, and the result is one the validator
\* built from the lists without such rules returns for the candidate.
C24_LocalLeniency ==
    v_result # NoneRec
    => /\ v_result.asset = v_asset
       /\ v_result.in_scope \in BOOLEAN
       /\ \A i \in 1..Len(scope_data.in_scope) :
              InvalidNetwork(scope_data.in_scope[i])
              => v_result.matched_rule # Lower(scope_data.in_scope[i])
       /\ \A i \in 1..Len(scope_data.out_of_scope) :
              InvalidNetwork(scope_data.out_of_scope[i])
              => v_result.matched_rule # Lower(scope_data.out_of_scope[i])
       /\ v_result \in validate(ScopeData(WithoutInvalid(scope_data.in_scope),
                                           WithoutInvalid(scope_data.out_of_scope)),
                                 v_asset)

\* the candidate spelled like the invalid network of the in-scope list is
\* not found
C24_Witness ==
    /\ v_result # NoneRec
    /\ v_asset = Str_cidr_bad
    /\ scope_data.in_scope = <<Str_cidr_bad, Str_A_c>>
    /\ v_result.in_scope = FALSE
    /\ v_result.matched_rule = NoneStr

\* s has the labels of d as its last labels, and more labels before them
BelowDomain(s, d) ==
    LET ls == Split(s, ".")
        ld == Split(d, ".")
    IN  /\ Len(ls) > Len(ld)
        /\ SubSeq(ls, Len(ls) - Len(ld) + 1, Len(ls)) = ld

\* a wildcard rule of the list matches s
WildcardCovers(list, s) ==
    \E i \in 1..Len(list) : Contains(list[i], "*") /\ PatternMatch(list[i], s)

\* the candidate validate looks up
Candidate == Strip(Lower(v_asset))

\* the candidate is a strict subdomain of an exact out-of-scope entry and
\* matches no out-of-scope exact, wildcard or CIDR rule
UnderExclusionOnly ==
    /\ \E d \in Exact(scope_data.out_of_scope) : BelowDomain(Candidate, d)
    /\ Candidate \notin Exact(scope_data.out_of_scope)
    /\ ~WildcardCovers(scope_data.out_of_scope, Candidate)
    /\ CidrHit(Candidate, Cidrs(scope_data.out_of_scope)) = 0

\* an in-scope rule or an exact in-scope parent domain covers the candidate
CoveredInScope ==
    \/ Candidate \in Exact(scope_data.in_scope)
    \/ WildcardCovers(scope_data.in_scope, Candidate)
    \/ CidrHit(Candidate, Cidrs(scope_data.in_scope)) # 0
    \/ \E d \in Exact(scope_data.in_scope) : BelowDomain(Candidate, d)

\* C30: subdomain inference is applied to in-scope exact entries only.  A
\* candidate that is a strict subdomain of an exact out-of-scope entry and
\* matches no out-of-scope exact, wildcard or CIDR rule is not excluded by
\* that entry: it is in scope whenever an in-scope rule or an exact in-scope
\* parent domain covers it, and otherwise it is merely not found.
C30_NoInferenceForExclusions ==
    (v_result # NoneRec /\ UnderExclusionOnly)
    => /\ CoveredInScope => v_result.in_scope = TRUE
       /\ ~CoveredInScope => /\ v_result.in_scope = FALSE
                             /\ v_result.reason = "Not found in program scope"
       /\ v_result.reason \notin {"Explicitly out of scope",
                                   "Matches out-of-scope pattern",
                                   "In out-of-scope CIDR range"}

\* in = [A.c], out = [t.a.c]: u.t.a.c is in scope as a subdomain of a.c
C30_Witness ==
    /\ v_result # NoneRec
    /\ scope_data.in_scope = <<Str_A_c>>
    /\ scope_data.out_of_scope = <<Str_t_a_c>>
    /\ v_asset = Str_u_t_a_c
    /\ UnderExclusionOnly
    /\ v_result.in_scope = TRUE
    /\ v_result.reason = "Subdomain of in-scope domain"
    /\ v_result.matched_rule = Str_a_c

(***************************************************************************)
(* Claims about ScopeComparator                                            *)
(***************************************************************************)

\* the items of either snapshot
SnapshotItems ==
    ToSet(previous.in_scope) \cup ToSet(previous.out_of_scope)
        \cup ToSet(current.in_scope) \cup ToSet(current.out_of_scope)

\* the changes of a list that are about item x
ChangesFor(changes, x) == {i \in 1..Len(changes) : changes[i].item = x}

\* C3: the comparison describes exactly what changed.  When the in-scope
\* sets or the out-of-scope sets of the two snapshots differ, compare returns
\* has_changes = true and every item whose membership in one of the lists
\* differs is the item of at least one change.
C3_NoChangeDropped ==
    (/\ comparison # NoneRec
     /\ \/ ToSet(previous.in_scope) # ToSet(current.in_scope)
        \/ ToSet(previous.out_of_scope) # ToSet(current.out_of_scope))
    => /\ Returned(comparison)
       /\ comparison.value.has_changes
       /\ \A x \in SnapshotItems :
             (\/ (x \in ToSet(previous.in_scope)) # (x \in ToSet(current.in_scope))
              \/ (x \in ToSet(previous.out_of_scope)) # (x \in ToSet(current.out_of_scope)))
             => ChangesFor(comparison.value.changes, x) # {}

\* C4: move conservation.  An item that was out of scope and not in scope
\* and is now in scope yields exactly one change, of type modified with
\* details from out_of_scope to in_scope, and no addition or removal.
C4_MoveConservation ==
    comparison # NoneRec =>
        \A x \in SnapshotItems :
            (/\ x \in ToSet(previous.out_of_scope)
             /\ x \notin ToSet(previous.in_scope)
             /\ x \in ToSet(current.in_scope))
            => /\ Returned(comparison)
               /\ Cardinality(ChangesFor(comparison.value.changes, x)) = 1
               /\ \A i \in ChangesFor(comparison.value.changes, x) :
                     /\ comparison.value.changes[i].change_type = MODIFIED
                     /\ comparison.value.changes[i].details
                           = [from |-> "out_of_scope", to |-> "in_scope"]
               /\ ChangesFor(comparison.value.additions, x) = {}
               /\ ChangesFor(comparison.value.removals, x) = {}

\* C5: symmetric move.  An item that was in scope, is no longer in scope and
\* is now out of scope yields exactly one change, of type modified from
\* in_scope to out_of_scope, and no removal or addition.
C5_SymmetricMove ==
    comparison # NoneRec =>
        \A x \in SnapshotItems :
            (/\ x \in ToSet(previous.in_scope)
             /\ x \notin ToSet(current.in_scope)
             /\ x \in ToSet(current.out_of_scope))
            => /\ Returned(comparison)
               /\ Cardinality(ChangesFor(comparison.value.changes, x)) = 1
               /\ \A i \in ChangesFor(comparison.value.changes, x) :
                     /\ comparison.value.changes[i].change_type = MODIFIED
                     /\ comparison.value.changes[i].details
                           = [from |-> "in_scope", to |-> "out_of_scope"]
               /\ ChangesFor(comparison.value.additions, x) = {}
               /\ ChangesFor(comparison.value.removals, x) = {}

\* l and m hold the same entries the same number of times
IsPermutation(l, m) ==
    /\ Len(l) = Len(m)
    /\ \A x \in ToSet(l) \cup ToSet(m) :
          Cardinality({i \in 1..Len(l) : l[i] = x}) = Cardinality({i \in 1..Len(m) : m[i] = x})

\* C6: checksum short-circuit.  Snapshots whose lists are permutations of
\* each other have equal checksums, and for snapshots with equal checksums
\* compare returns has_changes = false with empty changes, additions,
\* removals and modifications.
C6_ChecksumShortCircuit ==
    /\ (/\ previous # NoneRec
        /\ IsPermutation(previous.in_scope, current.in_scope)
        /\ IsPermutation(previous.out_of_scope, current.out_of_scope))
       => calculate_checksum(previous) = calculate_checksum(current)
    /\ (/\ comparison # NoneRec
        /\ calculate_checksum(previous) = calculate_checksum(current))
       => /\ Returned(comparison)
          /\ comparison.value.has_changes = FALSE
          /\ comparison.value.changes = <<>>
          /\ comparison.value.additions = <<>>
          /\ comparison.value.removals = <<>>
          /\ comparison.value.modifications = <<>>

\* C19: deterministic ordering.  For the same previous and current
\* snapshots every evaluation of compare returns a comparison, and any two
\* evaluations return the same sequences of ScopeChange items in changes,
\* additions, removals and modifications.
C19_DeterministicOrdering ==
    comparison # NoneRec
    => /\ Returned(comparison)
       /\ \A other \in compare(previous, current) :
             /\ Returned(other)
             /\ other.value.changes = comparison.value.changes
             /\ other.value.additions = comparison.value.additions
             /\ other.value.removals = comparison.value.removals
             /\ other.value.modifications = comparison.value.modifications

\* the number of changes for item x with a change_type and a category
CountOf(changes, x, t, category) ==
    Cardinality({i \in 1..Len(changes) : /\ changes[i].item = x
                                         /\ changes[i].change_type = t
                                         /\ changes[i].category = category})

\* the four plain cases, for the changes of a comparison of prev and curr
PlainCases(prev, curr, changes) ==
    LET prev_in  == ToSet(prev.in_scope)
        curr_in  == ToSet(curr.in_scope)
        prev_out == ToSet(prev.out_of_scope)
        curr_out == ToSet(curr.out_of_scope)
    IN  /\ \A x \in (curr_in \ prev_in) \ prev_out :
              CountOf(changes, x, ADDED, "in_scope") = 1
        /\ \A x \in (prev_out \ curr_out) \ curr_in :
              CountOf(changes, x, REMOVED, "out_of_scope") = 1
        /\ \A x \in (prev_in \ curr_in) \ curr_out :
              CountOf(changes, x, REMOVED, "in_scope") = 1
        /\ \A x \in (curr_out \ prev_out) \ prev_in :
              CountOf(changes, x, ADDED, "out_of_scope") = 1

\* C20: plain additions and removals.  compare returns a comparison in which
\* an item new to in_scope that was not out of scope before has exactly one
\* added change of category in_scope, an item gone from out_of_scope that is
\* not in scope now has exactly one removed change of category out_of_scope,
\* and likewise for an in-scope removal that is not out of scope now and an
\* out-of-scope addition that was not in scope before; has_changes is true
\* when there is such an item.
C20_PlainAdditionsAndRemovals ==
    comparison # NoneRec
    => /\ Returned(comparison)
       /\ PlainCases(previous, current, comparison.value.changes)
       /\ (ToSet(current.in_scope) \ (ToSet(previous.in_scope) \cup ToSet(previous.out_of_scope))) # {}
             => comparison.value.has_changes

\* the entries of a list of changes
Entries(changes) == {changes[i] : i \in 1..Len(changes)}

\* additions, removals and modifications split the changes of a comparison
\* by type, and has_changes tells whether there is a change
Partitioned(c) ==
    /\ Entries(c.additions) \cap Entries(c.removals) = {}
    /\ Entries(c.additions) \cap Entries(c.modifications) = {}
    /\ Entries(c.removals) \cap Entries(c.modifications) = {}
    /\ Entries(c.additions) \cup Entries(c.removals) \cup Entries(c.modifications)
          = Entries(c.changes)
    /\ Len(c.additions) + Len(c.removals) + Len(c.modifications) = Len(c.changes)
    /\ \A x \in Entries(c.additions) : x.change_type = ADDED
    /\ \A x \in Entries(c.removals) : x.change_type = REMOVED
    /\ \A x \in Entries(c.modifications) : x.change_type = MODIFIED
    /\ c.has_changes <=> c.changes # <<>>

\* C25: partition of the result.  compare returns a ScopeComparison whose
\* additions, removals and modifications are pairwise disjoint, together
\* hold exactly the entries of changes, hold only added, only removed and
\* only modified changes, and whose has_changes is true exactly when changes
\* is not empty.
C25_PartitionOfResult ==
    comparison # NoneRec
    => /\ Returned(comparison)
       /\ Partitioned(comparison.value)

(***************************************************************************)
(* Claims about the DiffEngine                                             *)
(***************************************************************************)

\* the latest call repeated the call before it: same asset, same probe record
RepeatedCall ==
    /\ last_call # NoneRec
    /\ last_call.prev # NoneRec
    /\ last_call.prev.key = last_call.key
    /\ last_call.prev.new_data = last_call.new_data

\* C7: idempotence.  A compare_and_update that immediately follows a
\* compare_and_update for the same asset with the identical probe record
\* returns is_new = false and no changed field, and appends no AssetChange.
C7_Idempotence ==
    RepeatedCall =>
        /\ last_call.is_new = FALSE
        /\ last_call.changed_fields = <<>>
        /\ Len(asset_changes) = last_call.changes_before

\* a repeated call on an asset that existed before the first of the two
\* calls, made at a later time than the asset's last change
C7_Witness ==
    /\ RepeatedCall
    /\ last_call.before # NoneRec
    /\ last_call.before.id = 1
    /\ asset_changes # <<>>
    /\ last_call.at > last_call.before.updated_at

\* C8: a compare_and_update on an existing asset that reports no changed
\* field leaves the stored updated_at as it was before the call, and sets
\* last_seen to the time of the call.  Stated for the committed row after a
\* call that found the asset with no pending modification.
C8_UpdatedAtOnlyOnChange ==
    (/\ session = "closed"
     /\ last_call # NoneRec
     /\ last_call.is_new = FALSE
     /\ last_call.changed_fields = <<>>
     /\ last_call.clean_before)
    => /\ flushed[last_call.key].updated_at = last_call.before.updated_at
       /\ flushed[last_call.key].last_seen = last_call.at

\* x in list
InSeq(x, l) == \E i \in 1..Len(l) : l[i] = x

\* C9: content-length threshold.  For a call on an existing asset whose
\* probe record contains content_length, with old the stored value and new
\* the probe's value (None read as 0), "content_length" is among the changed
\* fields exactly when old > 0 and 10 * |new - old| > old.
C9_ContentLengthThreshold ==
    (/\ last_call # NoneRec
     /\ last_call.is_new = FALSE
     /\ "content_length" \in DOMAIN last_call.new_data)
    => LET old == IF last_call.before.content_length = NoneInt THEN 0
                  ELSE last_call.before.content_length
           new == IF last_call.new_data.content_length = NoneInt THEN 0
                  ELSE last_call.new_data.content_length
           abs == IF new >= old THEN new - old ELSE old - new
       IN  InSeq("content_length", last_call.changed_fields)
               <=> (old > 0 /\ 10 * abs > old)

\* 1000 to 1101 is reported
C9_Witness ==
    /\ last_call # NoneRec
    /\ last_call.is_new = FALSE
    /\ last_call.before.content_length = 1000
    /\ "content_length" \in DOMAIN last_call.new_data
    /\ last_call.new_data.content_length = 1101
    /\ InSeq("content_length", last_call.changed_fields)

\* the fields of an asset that a probe observes
ObservedFields ==
    {"resolved_ips", "http_status", "content_length", "page_title",
     "technologies", "response_hash"}

\* the step is a call of compare_and_update
CallStep == calls' = calls + 1

\* the asset holds the probe record's value in every observed field the
\* record has
HoldsRecord(asset, new_data) ==
    \A f \in ObservedFields \cap DOMAIN new_data : asset[f] = new_data[f]

\* a call for a key that has no stored asset
NewAssetStep ==
    /\ CallStep
    /\ flushed[last_call'.key] = NoneRec
    => /\ last_call'.is_new = TRUE
       /\ last_call'.changed_fields = <<>>
       /\ asset_changes' = asset_changes
       /\ assets'[last_call'.key] # NoneRec
       /\ HoldsRecord(assets'[last_call'.key], last_call'.new_data)

\* a call for a key that has a stored asset; and a stored asset stays stored
LaterCallStep ==
    /\ (CallStep /\ flushed[last_call'.key] # NoneRec) => last_call'.is_new = FALSE
    /\ \A k \in AssetKeys : flushed[k] # NoneRec => flushed'[k] # NoneRec

\* the session of a new-asset call has been committed
NewAssetCommitted ==
    /\ session = "closed"
    /\ last_call # NoneRec
    /\ last_call.is_new

\* C13: new-asset path.  A compare_and_update for a (program_id, value) that
\* has no stored asset returns is_new = true and no changed field, appends
\* no AssetChange, and leaves the asset, as loaded and as committed, with
\* the probe record's value in every observed field; a stored asset stays
\* stored, and every call for a key that has one returns is_new = false.
C13_NewAssetPath ==
    /\ [][NewAssetStep /\ LaterCallStep]_vars
    /\ [](NewAssetCommitted
            => /\ flushed[last_call.key] # NoneRec
               /\ HoldsRecord(flushed[last_call.key], last_call.new_data))

\* a new asset committed with a full probe record, after an earlier asset
C13_Witness ==
    /\ NewAssetCommitted
    /\ last_call.new_data = BaseRecord
    /\ flushed[last_call.key].id = 2
    /\ flushed[last_call.key].response_hash = Hash_1

\* the string an AssetChange holds for a value of a field
Serialized(field_name, value) ==
    CASE field_name = "http_status" ->
             IF value = NoneInt \/ value = 0 THEN NoneStr ELSE IntStr(value)
      [] field_name = "content_length" ->
             IF value = NoneInt THEN <<"0">> ELSE IntStr(value)
      [] field_name \in {"technologies", "resolved_ips"} ->
             Join(SortedSet(IF value = NoneList THEN {} ELSE ToSet(value)), <<",">>)
      [] OTHER -> value

\* a call for a key that has a stored asset appends one AssetChange for each
\* changed field, in order, and nothing else
ChangeLogStep ==
    (CallStep /\ flushed[last_call'.key] # NoneRec)
    => LET n      == Len(asset_changes)
           call   == last_call'
           fields == call.changed_fields
       IN  /\ Len(asset_changes') = n + Len(fields)
           /\ \A i, j \in 1..Len(fields) : fields[i] = fields[j] => i = j
           /\ \A i \in 1..Len(fields) :
                  /\ fields[i] \in ObservedFields \cap DOMAIN call.new_data
                  /\ asset_changes'[n + i].asset_id = call.before.id
                  /\ asset_changes'[n + i].field_name = fields[i]
                  /\ asset_changes'[n + i].change_type = "modified"
                  /\ asset_changes'[n + i].old_value
                        = Serialized(fields[i], call.before[fields[i]])
                  /\ asset_changes'[n + i].new_value
                        = Serialized(fields[i], call.new_data[fields[i]])

\* what was recorded is still there, unaltered
LogGrows ==
    /\ Len(asset_changes') >= Len(asset_changes)
    /\ SubSeq(asset_changes', 1, Len(asset_changes)) = asset_changes

\* C14: change log.  Each compare_and_update on an existing asset appends
\* exactly one AssetChange per changed field, with that field_name,
\* change_type modified, old_value the serialization of the value the asset
\* held before the call and new_value the serialization of the probed
\* value, and appends nothing else; no step alters or removes an AssetChange
\* already recorded.
C14_ChangeLog == [][ChangeLogStep /\ LogGrows]_vars

\* a call that changed several fields of an asset, among them an unset
\* http_status
C14_Witness ==
    /\ last_call # NoneRec
    /\ last_call.is_new = FALSE
    /\ Len(last_call.changed_fields) >= 3
    /\ Len(asset_changes) = last_call.changes_before + Len(last_call.changed_fields)
    /\ last_call.changed_fields[1] = "http_status"
    /\ asset_changes[last_call.changes_before + 1].old_value = NoneStr

\* the rule of _detect_changes for a field fires between a stored value and
\* a probed one
RuleFires(field_name, old, new) ==
    CASE field_name = "content_length" ->
             LET o == IF old = NoneInt THEN 0 ELSE old
                 n == IF new = NoneInt THEN 0 ELSE new
                 d == IF n >= o THEN n - o ELSE o - n
             IN  o > 0 /\ 10 * d > o
      [] field_name \in {"technologies", "resolved_ips"} ->
             (IF old = NoneList THEN {} ELSE ToSet(old))
                 # (IF new = NoneList THEN {} ELSE ToSet(new))
      [] field_name = "response_hash" ->
             old # NoneStr /\ old # <<>> /\ new # NoneStr /\ new # <<>> /\ old # new
      [] OTHER -> old # new

\* the rule for a field as stated with "non-null" hashes: an empty hash
\* counts as a hash
StatedRuleFires(field_name, old, new) ==
    IF field_name = "response_hash"
    THEN old # NoneStr /\ new # NoneStr /\ old # new
    ELSE RuleFires(field_name, old, new)

\* the latest call found a stored asset
ExistingAssetCall == last_call # NoneRec /\ last_call.is_new = FALSE

NoDuplicates(l) == \A i, j \in 1..Len(l) : l[i] = l[j] => i = j

\* C21 as stated: per-field rules.  For an existing asset the changed
\* fields are exactly the fields present in the probe record whose rule
\* fires, the response_hash rule being that the stored and the probed hash
\* are both non-null and differ.
C21_PerFieldRulesAsStated ==
    ExistingAssetCall
    => \A f \in ObservedFields :
          InSeq(f, last_call.changed_fields)
          <=> /\ f \in DOMAIN last_call.new_data
              /\ StatedRuleFires(f, last_call.before[f], last_call.new_data[f])

\* C21: per-field rules.  For an existing asset the changed fields are
\* exactly the fields present in the probe record whose rule fires, each
\* listed once: http_status and page_title, the stored value differs from
\* the probed one (None counts as a value); technologies and resolved_ips,
\* the sets differ, None read as empty; response_hash, the stored and the
\* probed hash are both neither None nor empty, and differ; content_length,
\* the 10% rule.
C21_PerFieldRules ==
    ExistingAssetCall
    => /\ NoDuplicates(last_call.changed_fields)
       /\ \A i \in 1..Len(last_call.changed_fields) :
              last_call.changed_fields[i] \in ObservedFields
       /\ \A f \in ObservedFields :
              InSeq(f, last_call.changed_fields)
              <=> /\ f \in DOMAIN last_call.new_data
                  /\ RuleFires(f, last_call.before[f], last_call.new_data[f])

\* a reordered technology list with a repeated entry was probed against the
\* stored one and nothing was reported
C21_Witness ==
    /\ ExistingAssetCall
    /\ "technologies" \in DOMAIN last_call.new_data
    /\ last_call.before.technologies = <<Tech_php, Tech_js>>
    /\ last_call.new_data.technologies = <<Tech_js, Tech_php, Tech_js>>
    /\ last_call.changed_fields = <<>>

\* a call on a stored asset leaves every observed field its probe record
\* lacks as it was and does not report it, and leaves every field the
\* record has at the probed value
PartialUpdateStep ==
    (CallStep /\ last_call'.is_new = FALSE)
    => LET call == last_call'
           obj  == assets'[call.key]
       IN  /\ \A f \in ObservedFields \ DOMAIN call.new_data :
                  /\ obj[f] = call.before[f]
                  /\ ~InSeq(f, call.changed_fields)
           /\ \A f \in ObservedFields \cap DOMAIN call.new_data : obj[f] = call.new_data[f]

\* the session of a call on a stored asset has been committed
ExistingAssetCommitted == session = "closed" /\ ExistingAssetCall

\* C22: partial update.  For every observed field absent from new_data,
\* compare_and_update on a stored asset leaves the stored value unchanged
\* and never lists the field among the changed fields; every field present
\* in new_data is overwritten with the probed value, reported or not.  This
\* holds of the loaded asset after the call and of the row after the commit.
C22_PartialUpdate ==
    /\ [][PartialUpdateStep]_vars
    /\ [](ExistingAssetCommitted
            => LET call == last_call
                   row  == flushed[call.key]
               IN  /\ \A f \in ObservedFields \ DOMAIN call.new_data :
                          row[f] = call.before[f]
                   /\ \A f \in ObservedFields \cap DOMAIN call.new_data :
                          row[f] = call.new_data[f])

\* a record holding content_length only was committed onto a fully observed
\* asset: content_length was reported and replaced, the rest stayed
C22_Witness ==
    /\ ExistingAssetCommitted
    /\ DOMAIN last_call.new_data = {"content_length"}
    /\ last_call.changed_fields = <<"content_length">>
    /\ flushed[last_call.key].content_length = 500
    /\ flushed[last_call.key].response_hash = Hash_1
    /\ flushed[last_call.key].resolved_ips = <<Str_ip4>>

\* the calls made so far, oldest first: key and probe record of each
CallHistory == IF last_call = NoneRec THEN <<>> ELSE last_call.history

\* the probe records observed for a key so far, oldest first
Observations(key) ==
    LET ForKey(c) == c.key = key
        of_key    == SelectSeq(CallHistory, ForKey)
    IN  [i \in 1..Len(of_key) |-> of_key[i].new_data]

\* the AssetChange records of a field kept for the asset of a key
RecordsOf(key, field_name) ==
    {i \in 1..Len(asset_changes) :
        /\ flushed[key] # NoneRec
        /\ asset_changes[i].asset_id = flushed[key].id
        /\ asset_changes[i].field_name = field_name}

\* new is within 10% of old, None read as 0
WithinTenPercent(old, new) ==
    LET o == IF old = NoneInt THEN 0 ELSE old
        n == IF new = NoneInt THEN 0 ELSE new
        d == IF n >= o THEN n - o ELSE o - n
    IN  10 * d <= o

\* every observation carries a content_length within 10% of the one before
Gradual(obs) ==
    /\ \A i \in 1..Len(obs) : "content_length" \in DOMAIN obs[i]
    /\ \A i \in 2..Len(obs) :
           WithinTenPercent(obs[i - 1].content_length, obs[i].content_length)

\* every observation carries a response_hash, and of any two consecutive
\* observations one has the hash None
HashInterrupted(obs) ==
    /\ \A i \in 1..Len(obs) : "response_hash" \in DOMAIN obs[i]
    /\ \A i \in 2..Len(obs) :
           obs[i - 1].response_hash = NoneStr \/ obs[i].response_hash = NoneStr

\* the value the latest call's predecessor for the same key observed in a
\* field, where there is such a predecessor
HasPreceding(f) ==
    \E i \in 1..(Len(CallHistory) - 1) :
        CallHistory[i].key = last_call.key /\ f \in DOMAIN CallHistory[i].new_data

Preceding(f) ==
    LET i == CHOOSE i \in 1..(Len(CallHistory) - 1) :
                 /\ CallHistory[i].key = last_call.key
                 /\ f \in DOMAIN CallHistory[i].new_data
                 /\ \A j \in (i + 1)..(Len(CallHistory) - 1) :
                        ~(/\ CallHistory[j].key = last_call.key
                          /\ f \in DOMAIN CallHistory[j].new_data)
    IN  CallHistory[i].new_data[f]

\* C29: moving baseline.  The content_length and the response_hash a call
\* on a stored asset compares with are the values the immediately preceding
\* observation of the asset stored, reported or not.  So when every
\* content_length observed for an asset is within 10% of the one before, no
\* content_length AssetChange is recorded for it, however far the value has
\* drifted; and when the hash goes from h1 to None to h2, no response_hash
\* AssetChange is recorded.
C29_MovingBaseline ==
    /\ \A f \in {"content_length", "response_hash"} :
           (ExistingAssetCall /\ HasPreceding(f)) => last_call.before[f] = Preceding(f)
    /\ \A key \in AssetKeys :
           /\ Gradual(Observations(key)) => RecordsOf(key, "content_length") = {}
           /\ HashInterrupted(Observations(key)) => RecordsOf(key, "response_hash") = {}

\* content_length 1000, 1100 and 1101 were observed in turn for one asset:
\* the last is more than 10% from the first, and nothing was recorded
C29_Witness ==
    /\ Len(Observations(<<1, Str_a_c>>)) = 3
    /\ Gradual(Observations(<<1, Str_a_c>>))
    /\ Observations(<<1, Str_a_c>>)[1].content_length = 1000
    /\ Observations(<<1, Str_a_c>>)[2].content_length = 1100
    /\ Observations(<<1, Str_a_c>>)[3].content_length = 1101
    /\ OverTenPercent(1000, 1101)
    /\ last_call.before.content_length = 1100
    /\ asset_changes = <<>>

\* the hash went from h1 to None to h2 and nothing was recorded
C29_HashCase ==
    /\ Len(Observations(<<1, Str_a_c>>)) = 3
    /\ HashInterrupted(Observations(<<1, Str_a_c>>))
    /\ Observations(<<1, Str_a_c>>)[1].response_hash = Hash_1
    /\ Observations(<<1, Str_a_c>>)[2].response_hash = NoneStr
    /\ Observations(<<1, Str_a_c>>)[3].response_hash = Hash_2
    /\ asset_changes = <<>>

\* worker w finishes a call in this step
FinishStep(w) == txns[w].pending # NoneRec /\ txns'[w].pending = NoneRec

\* the AssetChange records worker w's transaction gained in this step
Gained(w) ==
    SubSeq(txns'[w].changes, Len(txns[w].changes) + 1, Len(txns'[w].changes))

\* a call that follows a call for the same key records, for every field
\* both probe records have and whose rule fires between the value the
\* earlier call stored and the value probed now, an AssetChange holding the
\* earlier call's value as old_value
NoLostChangeStep(w) ==
    (FinishStep(w) /\ trace'.last.prev # NoneRec)
    => LET call == trace'.last
       IN  \A f \in (ObservedFields \cap DOMAIN call.prev) \cap DOMAIN call.new_data :
              RuleFires(f, call.prev[f], call.new_data[f])
              => \E i \in 1..Len(Gained(w)) :
                    /\ Gained(w)[i].field_name = f
                    /\ Gained(w)[i].old_value = Serialized(f, call.prev[f])
                    /\ Gained(w)[i].new_value = Serialized(f, call.new_data[f])

\* a commit appends the transaction's AssetChange records to the table, and
\* no other step touches the table
ChangesKeptStep ==
    /\ \A w \in Workers :
          (txns[w].session = "open" /\ txns'[w].session = "closed")
          => db'.changes = db.changes \o txns[w].changes
    /\ (\A w \in Workers : txns'[w].session = txns[w].session) => db'.changes = db.changes
    /\ \A w \in Workers :
          txns'[w].session = "open" /\ txns[w].session = "open"
          => SubSeq(txns'[w].changes, 1, Len(txns[w].changes)) = txns[w].changes

AllRows == race.table \cup UNION {race.txn[w].own : w \in Workers}

\* at most one row per (program_id, value)
OneRowPerKey(rows) ==
    \A r1, r2 \in rows : (r1.program_id = r2.program_id /\ r1.value = r2.value) => r1 = r2

\* worker w's create_or_update ends in this step
ReturnStep(w) ==
    /\ race'.txn[w] # race.txn[w]
    /\ race.txn[w].phase \in {"open", "selected", "waiting"}
    /\ race'.txn[w].phase \in {"open", "failed"}
    /\ race'.txn[w].returned # NoneRec

NewOnlyWhenAbsentStep(w) ==
    ReturnStep(w)
    => LET result == race'.txn[w].returned
       IN  IF result.is_new
           THEN /\ RowsWithKey(AllRows, result.key) = {}
                /\ Cardinality(RowsWithKey(AllRows', result.key)) = 1
                /\ AllRows \subseteq AllRows'
           ELSE AllRows' \subseteq AllRows

FirstMatch(asset, force, t) ==
    CASE force                          -> [should_scan |-> TRUE,  reason |-> "Force scan requested"]
      [] ~force /\ t - asset.first_seen < 300
                                        -> [should_scan |-> TRUE,  reason |-> "New asset (first scan)"]
      [] ~force /\ ~(t - asset.first_seen < 300) /\ t - asset.updated_at < 3600
                                        -> [should_scan |-> TRUE,  reason |-> "Recently modified asset"]
      [] ~force /\ ~(t - asset.first_seen < 300) /\ ~(t - asset.updated_at < 3600)
            /\ ~asset.is_alive          -> [should_scan |-> FALSE, reason |-> "Asset is no longer alive"]
      [] ~force /\ ~(t - asset.first_seen < 300) /\ ~(t - asset.updated_at < 3600)
            /\ asset.is_alive /\ t - asset.last_seen > 86400
                                        -> [should_scan |-> TRUE,  reason |-> "Periodic scan (24h)"]
      [] OTHER                          -> [should_scan |-> FALSE, reason |-> "No changes detected, skip scan"]

\* C10: decision order.  should_scan returns the outcome of the first rule
\* that matches, in the order force, new asset (first seen less than 5
\* minutes ago), recently modified (updated less than 1 hour ago), not alive,
\* periodic (last seen more than 24 hours ago), otherwise no scan, with now a
\* time at which the call read the clock.  An asset first seen 1 minute ago
\* that is not alive is scanned as a new asset, and a not-alive asset is
\* never scanned for the periodic reason.
C10_DecisionOrder ==
    sd_result # NoneRec =>
        /\ \E i \in 1..Len(sd_clock) : sd_result = FirstMatch(sd_asset, sd_force, sd_clock[i])
        /\ (~sd_force /\ sd_asset.first_seen = sd_clock[1] - 60 /\ ~sd_asset.is_alive)
              => sd_result = [should_scan |-> TRUE, reason |-> "New asset (first scan)"]
        /\ sd_result.reason = "Periodic scan (24h)" => sd_asset.is_alive

\* an asset first seen 1 minute ago and not alive was scanned as new
C10_Witness ==
    /\ sd_result # NoneRec
    /\ ~sd_force
    /\ sd_asset.first_seen = sd_clock[1] - 60
    /\ ~sd_asset.is_alive
    /\ sd_result.should_scan
    /\ sd_result.reason = "New asset (first scan)"

\* C18: periodic revisit.  An alive asset that every cycle observes with
\* unchanged data, and about which should_scan(force = false) is asked after
\* each cycle's observation, is selected at least once in every period
\* longer than 24 hours: whenever should_scan does not select it, it was
\* selected, or else first seen, at most 24 hours earlier.
C18_PeriodicRevisit ==
    (/\ revisit.evaluated # NoneRec
     /\ ~revisit.evaluated.decision.should_scan)
    => LET since == IF revisit.selected_at # NoneInt THEN revisit.selected_at
                    ELSE flushed[RevisitKey].first_seen
       IN  revisit.evaluated.at - since <= 86400

(***************************************************************************)
(* Claims about the reconnaissance flows                                   *)
(***************************************************************************)

\* a ScopeValidator built from the program's lists classifies host as out of scope
OutOfScope(host) ==
    /\ program # NoneRec
    /\ \E r \in validate(ScopeData(program.in_scope, program.out_of_scope), host) :
          r.in_scope = FALSE

\* the hosts stored as assets of the program
StoredHosts == {k[2] : k \in {j \in AssetKeys : flushed[j] # NoneRec /\ j[1] = ProgramId}}

\* nothing has been written to the tables
NoWrite ==
    /\ \A k \in AssetKeys : flushed[k] = NoneRec /\ assets[k] = NoneRec
    /\ asset_changes = <<>>

\* C17: not-found fails loudly.  A reconnaissance cycle or a
\* scope-monitoring cycle run for a program id that has no row ends by
\* raising the not-found error to its caller, with nothing written.
C17_NotFoundFailsLoudly ==
    (program = NoneRec /\ flow \in {"full", "scope_monitoring"})
    => rpc = "raised" /\ NoWrite

\* the latest flow was a scope-monitoring cycle for a program that has a row
MonitoredProgram ==
    /\ flow = "scope_monitoring"
    /\ program # NoneRec
    /\ monitor_result # NoneRec

\* C23: first check.  A scope-monitoring cycle for a program with no
\* previous snapshot returns normally with is_first_check = true and
\* has_changes = true, and saves the fetched snapshot as the baseline; a
\* cycle that finds a snapshot reports is_first_check = false.
C23_FirstCheck ==
    MonitoredProgram
    => /\ Returned(monitor_result)
       /\ scope_history # <<>>
       /\ monitor_result.value.comparison.is_first_check = (Len(scope_history) = 1)
       /\ (Len(scope_history) = 1 => monitor_result.value.comparison.has_changes)

\* the alive assets of the program
AliveKeys ==
    {k \in AssetKeys : flushed[k] # NoneRec /\ k[1] = ProgramId /\ flushed[k].is_alive}

\* C26: after a scope-monitoring cycle of a program, the cycle has saved its
\* snapshot and every alive asset of the program carries an in_scope flag
\* equal to what a ScopeValidator built from that snapshot returns for the
\* asset's value.
C26_FlagsFollowScope ==
    MonitoredProgram
    => /\ Returned(monitor_result)
       /\ scope_history # <<>>
       /\ \A k \in AliveKeys :
              /\ "in_scope" \in DOMAIN flushed[k]
              /\ \A r \in validate(scope_history[Len(scope_history)], k[2]) :
                     flushed[k].in_scope = r.in_scope

\* update_assets_task stores a probe of a known host for which the flow has
\* no DNS result: resolved_ips stays as stored and is not reported
AbsentDnsStep ==
    (/\ CallStep
     /\ last_call'.is_new = FALSE
     /\ last_call'.key[2] \notin DOMAIN dns_results)
    => /\ assets'[last_call'.key].resolved_ips = last_call'.before.resolved_ips
       /\ ~InSeq("resolved_ips", last_call'.changed_fields)
       /\ \A i \in (Len(asset_changes) + 1)..Len(asset_changes') :
              asset_changes'[i].field_name # "resolved_ips"

\* C27: absent probe fields at the workflow level.  When update_assets_task
\* has no DNS result for a host, as in quick_recon_flow, which supplies no
\* DNS data, the update leaves the stored resolved_ips untouched and
\* records no change for it.
C27_AbsentFieldsUntouched == [][AbsentDnsStep]_vars

\* C2: no reconnaissance cycle port-scans, HTTP-probes or stores as an asset
\* a host that the program's ScopeValidator classifies as out of scope.
C2_NoOutOfScopeTarget ==
    \A h \in port_scanned \cup http_probed \cup StoredHosts : ~OutOfScope(h)

====
